---- MODULE Spec2Model ----
(***************************************************************************)
(* A model of the F&B analytics dashboard: the DataProcessor of            *)
(* src/src/data_utils.py (load, normalisation, summary, the six            *)
(* aggregation functions), the chart functions of src/src/viz_utils.py     *)
(* that write into the table they are given, and the load paths of         *)
(* src/src/app_streamlit.py.                                               *)
(*                                                                         *)
(* A pandas DataFrame is a record [columns, nrows, col]: the ordered       *)
(* column labels, the number of rows, and one sequence of cells per        *)
(* column.  Text cells are strings; Chars gives their characters, so that  *)
(* ordering, lower-casing and parsing are computed character by character. *)
(* Numbers are exact rationals [n, d]; d = 0 encodes the float values inf  *)
(* (n = 1) and NaN (n = 0) that pandas produces on a division by zero.     *)
(* Binary floating-point rounding error is not modelled.                   *)
(***************************************************************************)
EXTENDS Integers, Sequences, FiniteSets, TLC

(***************************************************************************)
(* Bounds of the model.                                                    *)
(***************************************************************************)
MaxRows == 4

(***************************************************************************)
(* Generic helpers on sequences and sets.                                  *)
(***************************************************************************)
Range(s) == {s[i] : i \in DOMAIN s}

Min2(a, b) == IF a <= b THEN a ELSE b

Abs(a) == IF a < 0 THEN -a ELSE a

RECURSIVE SeqsUpTo(_, _)
SeqsUpTo(S, n) ==
  IF n = 0 THEN {<<>>}
  ELSE LET shorter == SeqsUpTo(S, n - 1)
       IN  shorter \cup {Append(s, x) : s \in {t \in shorter : Len(t) = n - 1}, x \in S}

Take(s, n) == SubSeq(s, 1, Min2(n, Len(s)))

\* The sequence f[1], ..., f[n] as an explicit tuple.
RECURSIVE TupleOf(_, _)
TupleOf(f, n) == IF n = 0 THEN <<>> ELSE Append(TupleOf(f, n - 1), f[n])

Tuple(f) == TupleOf(f, Cardinality(DOMAIN f))

\* The positions of s that satisfy keep, in order.
RECURSIVE SelectIdx(_, _, _)
SelectIdx(n, keep, i) ==
  IF i > n THEN <<>>
  ELSE IF keep[i] THEN <<i>> \o SelectIdx(n, keep, i + 1)
       ELSE SelectIdx(n, keep, i + 1)

(***************************************************************************)
(* Text.  Python compares strings by code point; Alphabet lists the        *)
(* characters the model uses in code point order.                          *)
(***************************************************************************)
Alphabet ==
  << " ", "(", "-", ".", "/", "0", "1", "2", "3", "4", "5", "6", "7", "8", "9",
     "A", "B", "E", "F", "G", "M", "N", "P", "R", "S", "T", "W",
     "a", "b", "c", "d", "e", "g", "h", "i", "k", "l", "m", "n", "o", "p", "r", "s",
     "t", "u", "y", "z" >>

Code(c) == CHOOSE i \in DOMAIN Alphabet : Alphabet[i] = c

Digits == <<"0", "1", "2", "3", "4", "5", "6", "7", "8", "9">>

IsDigit(c) == c \in Range(Digits)

DigitVal(c) == (CHOOSE i \in DOMAIN Digits : Digits[i] = c) - 1

Chars(s) ==
  CASE s = "" -> <<>>
    [] s = "Store A" -> <<"S", "t", "o", "r", "e", " ", "A">>
    [] s = "Store B" -> <<"S", "t", "o", "r", "e", " ", "B">>
    [] s = "Nasi Goreng" -> <<"N", "a", "s", "i", " ", "G", "o", "r", "e", "n", "g">>
    [] s = "Ayam Bakar" -> <<"A", "y", "a", "m", " ", "B", "a", "k", "a", "r">>
    [] s = "Es Teh" -> <<"E", "s", " ", "T", "e", "h">>
    [] s = "Regular" -> <<"R", "e", "g", "u", "l", "a", "r">>
    [] s = "Premium" -> <<"P", "r", "e", "m", "i", "u", "m">>
    [] s = "Budget" -> <<"B", "u", "d", "g", "e", "t">>
    [] s = "2024-01-15" -> <<"2", "0", "2", "4", "-", "0", "1", "-", "1", "5">>
    [] s = "2024-01-16" -> <<"2", "0", "2", "4", "-", "0", "1", "-", "1", "6">>
    [] s = "2024-02-05" -> <<"2", "0", "2", "4", "-", "0", "2", "-", "0", "5">>
    [] s = "2024-13-45" -> <<"2", "0", "2", "4", "-", "1", "3", "-", "4", "5">>
    [] s = "Monday" -> <<"M", "o", "n", "d", "a", "y">>
    [] s = "Tuesday" -> <<"T", "u", "e", "s", "d", "a", "y">>
    [] s = "Wednesday" -> <<"W", "e", "d", "n", "e", "s", "d", "a", "y">>
    [] s = "Thursday" -> <<"T", "h", "u", "r", "s", "d", "a", "y">>
    [] s = "Friday" -> <<"F", "r", "i", "d", "a", "y">>
    [] s = "Saturday" -> <<"S", "a", "t", "u", "r", "d", "a", "y">>
    [] s = "Sunday" -> <<"S", "u", "n", "d", "a", "y">>
    [] s = "TEH" -> <<"T", "E", "H">>
    [] s = "store a" -> <<"s", "t", "o", "r", "e", " ", "a">>
    [] s = "zzz" -> <<"z", "z", "z">>
    [] s = "e." -> <<"e", ".">>
    [] s = "menu" -> <<"m", "e", "n", "u">>
    [] s = "makanan" -> <<"m", "a", "k", "a", "n", "a", "n">>
    [] s = "minuman" -> <<"m", "i", "n", "u", "m", "a", "n">>
    [] s = "store" -> <<"s", "t", "o", "r", "e">>
    [] s = "outlet" -> <<"o", "u", "t", "l", "e", "t">>
    [] s = "cabang" -> <<"c", "a", "b", "a", "n", "g">>
    [] s = "segment" -> <<"s", "e", "g", "m", "e", "n", "t">>
    [] s = "customer" -> <<"c", "u", "s", "t", "o", "m", "e", "r">>
    [] s = "pelanggan" -> <<"p", "e", "l", "a", "n", "g", "g", "a", "n">>
    [] s = "menu store customer" ->
         <<"m", "e", "n", "u", " ", "s", "t", "o", "r", "e", " ",
           "c", "u", "s", "t", "o", "m", "e", "r">>
    [] s = "Menu 01" -> <<"M", "e", "n", "u", " ", "0", "1">>
    [] s = "Menu 02" -> <<"M", "e", "n", "u", " ", "0", "2">>
    [] s = "Menu 03" -> <<"M", "e", "n", "u", " ", "0", "3">>
    [] s = "Menu 04" -> <<"M", "e", "n", "u", " ", "0", "4">>
    [] s = "Menu 05" -> <<"M", "e", "n", "u", " ", "0", "5">>
    [] s = "Menu 06" -> <<"M", "e", "n", "u", " ", "0", "6">>
    [] s = "Menu 07" -> <<"M", "e", "n", "u", " ", "0", "7">>
    [] s = "Menu 08" -> <<"M", "e", "n", "u", " ", "0", "8">>
    [] s = "Menu 09" -> <<"M", "e", "n", "u", " ", "0", "9">>
    [] s = "Menu 10" -> <<"M", "e", "n", "u", " ", "1", "0">>
    [] s = "Menu 11" -> <<"M", "e", "n", "u", " ", "1", "1">>
    [] s = "Menu 12" -> <<"M", "e", "n", "u", " ", "1", "2">>
    [] s = "Menu 13" -> <<"M", "e", "n", "u", " ", "1", "3">>
    [] s = "Menu 14" -> <<"M", "e", "n", "u", " ", "1", "4">>
    [] s = "(" -> <<"(">>

\* The strings of the model, to find the string that has given characters.
Texts ==
  { "", "Store A", "Store B", "Nasi Goreng", "Ayam Bakar", "Es Teh", "Regular",
    "Premium", "Budget", "2024-01-15", "2024-01-16", "2024-02-05", "2024-13-45",
    "Monday", "Tuesday", "Wednesday", "Thursday", "Friday", "Saturday", "Sunday" }

RECURSIVE LexLt(_, _)
LexLt(a, b) ==
  IF Len(b) = 0 THEN FALSE
  ELSE IF Len(a) = 0 THEN TRUE
  ELSE IF Code(a[1]) # Code(b[1]) THEN Code(a[1]) < Code(b[1])
  ELSE LexLt(Tail(a), Tail(b))

StrLt(a, b) == LexLt(Chars(a), Chars(b))

(***************************************************************************)
(* Rational numbers with the float specials inf, -inf and NaN.             *)
(***************************************************************************)
RECURSIVE GCD(_, _)
GCD(a, b) == IF b = 0 THEN a ELSE GCD(b, a % b)

NaN == [n |-> 0, d |-> 0]

Rat(n, d) ==
  IF d = 0 THEN [n |-> IF n > 0 THEN 1 ELSE IF n < 0 THEN -1 ELSE 0, d |-> 0]
  ELSE LET s == IF d < 0 THEN -1 ELSE 1
           g == GCD(Abs(n), Abs(d))
       IN  [n |-> (s * n) \div g, d |-> (s * d) \div g]

Num(k) == [n |-> k, d |-> 1]

IsNaN(x) == x.d = 0 /\ x.n = 0

IsFinite(x) == x.d # 0

RAdd(x, y) ==
  IF IsNaN(x) \/ IsNaN(y) THEN NaN
  ELSE IF ~IsFinite(x) /\ ~IsFinite(y) THEN (IF x.n = y.n THEN x ELSE NaN)
  ELSE IF ~IsFinite(x) THEN x
  ELSE IF ~IsFinite(y) THEN y
  ELSE LET g == GCD(x.d, y.d)
       IN  Rat(x.n * (y.d \div g) + y.n * (x.d \div g), (x.d \div g) * y.d)

RNeg(x) == [n |-> -x.n, d |-> x.d]

RSub(x, y) == RAdd(x, RNeg(y))

\* The product of two finite numbers, reduced crosswise before multiplying.
RMulFinite(x, y, g1, g2) ==
  [n |-> (x.n \div g1) * (y.n \div g2), d |-> (x.d \div g2) * (y.d \div g1)]

RMul(x, y) ==
  IF IsNaN(x) \/ IsNaN(y) THEN NaN
  ELSE IF ~IsFinite(x) \/ ~IsFinite(y)
       THEN (IF x.n = 0 \/ y.n = 0 THEN NaN ELSE Rat(x.n * y.n, 0))
  ELSE IF x.n = 0 \/ y.n = 0 THEN Num(0)
  ELSE RMulFinite(x, y, GCD(Abs(x.n), y.d), GCD(Abs(y.n), x.d))

\* Float division as numpy does it on a column: x/0 is inf (or NaN for 0/0),
\* never an exception.
RDiv(x, y) ==
  IF IsNaN(x) \/ IsNaN(y) THEN NaN
  ELSE IF ~IsFinite(y) THEN (IF IsFinite(x) THEN Num(0) ELSE NaN)
  ELSE IF ~IsFinite(x) THEN (IF y.n < 0 THEN RNeg(x) ELSE x)
  ELSE IF y.n = 0 THEN Rat(x.n, 0)
  ELSE RMul(x, IF y.n < 0 THEN [n |-> -y.d, d |-> -y.n] ELSE [n |-> y.d, d |-> y.n])

\* Comparisons with NaN are false, as for floats.
RLt(x, y) ==
  IF IsNaN(x) \/ IsNaN(y) THEN FALSE
  ELSE IF ~IsFinite(x) THEN x.n < 0 /\ ~(y.d = 0 /\ y.n < 0)
  ELSE IF ~IsFinite(y) THEN y.n > 0
  ELSE LET g == GCD(x.d, y.d)
       IN  x.n * (y.d \div g) < y.n * (x.d \div g)

RGt(x, y) == RLt(y, x)

RECURSIVE Pow10(_)
Pow10(k) == IF k = 0 THEN 1 ELSE 10 * Pow10(k - 1)

\* Long division: the first `decimals` decimal digits q of rem/d, and the
\* remainder r left after them.
RECURSIVE Digits10(_, _, _)
Digits10(rem, d, decimals) ==
  IF decimals = 0 THEN [q |-> 0, r |-> rem]
  ELSE LET p == Digits10(rem, d, decimals - 1)
       IN  [q |-> p.q * 10 + (p.r * 10) \div d, r |-> (p.r * 10) % d]

RoundDigits(whole, p, d, decimals) ==
  RAdd(Num(whole),
       Rat(IF 2 * p.r > d \/ (2 * p.r = d /\ p.q % 2 = 1) THEN p.q + 1 ELSE p.q,
           Pow10(decimals)))

\* round(x, decimals), ties to even; the specials are left alone.
RoundTo(x, decimals) ==
  IF ~IsFinite(x) THEN x
  ELSE RoundDigits(x.n \div x.d, Digits10(x.n % x.d, x.d, decimals), x.d, decimals)

Round2(x) == RoundTo(x, 2)

RECURSIVE RSumSeq(_)
RSumSeq(s) == IF Len(s) = 0 THEN Num(0) ELSE RAdd(s[1], RSumSeq(Tail(s)))

\* The sequence without its NaN cells (pandas skips them in sum and mean).
RECURSIVE DropNaN(_)
DropNaN(s) ==
  IF Len(s) = 0 THEN <<>>
  ELSE IF IsNaN(s[1]) THEN DropNaN(Tail(s))
  ELSE <<s[1]>> \o DropNaN(Tail(s))

\* Series.sum(): NaN cells skipped, the sum of nothing is 0.
SeriesSum(s) == RSumSeq(DropNaN(s))

\* Series.mean(): NaN cells skipped, the mean of nothing is NaN.
SeriesMean(s) ==
  LET v == DropNaN(s)
  IN  IF Len(v) = 0 THEN NaN ELSE RDiv(RSumSeq(v), Num(Len(v)))

RECURSIVE RInsert(_, _)
RInsert(x, s) ==
  IF Len(s) = 0 THEN <<x>>
  ELSE IF RLt(s[1], x) THEN <<s[1]>> \o RInsert(x, Tail(s))
  ELSE <<x>> \o s

RECURSIVE RSort(_)
RSort(s) == IF Len(s) = 0 THEN <<>> ELSE RInsert(s[1], RSort(Tail(s)))

\* Series.quantile(q) with linear interpolation, q = qn/qd; NaN for no values.
QuantileSorted(v, qn, qd) ==
  IF Len(v) = 0 THEN NaN
  ELSE LET pos == (Len(v) - 1) * qn
           lo == pos \div qd
       IN  IF lo + 1 >= Len(v) THEN v[Len(v)]
           ELSE RAdd(v[lo + 1], RMul(RSub(v[lo + 2], v[lo + 1]), Rat(pos - lo * qd, qd)))

Quantile(s, qn, qd) == QuantileSorted(RSort(DropNaN(s)), qn, qd)

(***************************************************************************)
(* Calendar dates.  A Timestamp is [y, m, d]; pandas reads the date column *)
(* of a CSV file as text and pd.to_datetime parses it.  The model parses   *)
(* the ISO form YYYY-MM-DD and treats any other text as unparseable.       *)
(***************************************************************************)
IsLeap(y) == (y % 4 = 0 /\ y % 100 # 0) \/ y % 400 = 0

DaysInMonth(y, m) ==
  IF m = 2 THEN (IF IsLeap(y) THEN 29 ELSE 28)
  ELSE IF m \in {4, 6, 9, 11} THEN 30 ELSE 31

RECURSIVE DaysBeforeMonth(_, _)
DaysBeforeMonth(y, m) ==
  IF m = 1 THEN 0 ELSE DaysBeforeMonth(y, m - 1) + DaysInMonth(y, m - 1)

DaysBeforeYear(y) ==
  (y - 1) * 365 + (y - 1) \div 4 - (y - 1) \div 100 + (y - 1) \div 400

Ordinal(t) == DaysBeforeYear(t.y) + DaysBeforeMonth(t.y, t.m) + t.d

\* Monday = 0 .. Sunday = 6.
Weekday(t) == (Ordinal(t) + 6) % 7

DayNames ==
  <<"Monday", "Tuesday", "Wednesday", "Thursday", "Friday", "Saturday", "Sunday">>

DayName(t) == DayNames[Weekday(t) + 1]

IsoWeek1Monday(y) ==
  LET firstday == DaysBeforeYear(y) + 1
      firstweekday == (firstday + 6) % 7
      monday == firstday - firstweekday
  IN  IF firstweekday > 3 THEN monday + 7 ELSE monday

IsoWeek(t) ==
  LET today == Ordinal(t)
      w == (today - IsoWeek1Monday(t.y)) \div 7
  IN  IF today < IsoWeek1Monday(t.y)
        THEN (today - IsoWeek1Monday(t.y - 1)) \div 7 + 1
      ELSE IF w >= 52 /\ today >= IsoWeek1Monday(t.y + 1) THEN 1
      ELSE w + 1

TwoDigits(c1, c2) == 10 * DigitVal(c1) + DigitVal(c2)

DateShape(c) ==
  /\ Len(c) = 10
  /\ c[5] = "-" /\ c[8] = "-"
  /\ \A i \in {1, 2, 3, 4, 6, 7, 9, 10} : IsDigit(c[i])

DateFields(c) ==
  [y |-> 100 * TwoDigits(c[1], c[2]) + TwoDigits(c[3], c[4]),
   m |-> TwoDigits(c[6], c[7]),
   d |-> TwoDigits(c[9], c[10])]

Parseable(s) ==
  LET c == Chars(s)
  IN  /\ DateShape(c)
      /\ LET t == DateFields(c)
         IN  t.y >= 1 /\ t.m \in 1..12 /\ t.d \in 1..DaysInMonth(t.y, t.m)

to_datetime(s) == DateFields(Chars(s))

Pad2(k) == <<Digits[(k \div 10) + 1], Digits[(k % 10) + 1]>>

\* Timestamp.strftime('%Y-%m-%d')
strftime(t) ==
  LET c == Pad2(t.y \div 100) \o Pad2(t.y % 100) \o <<"-">> \o Pad2(t.m)
           \o <<"-">> \o Pad2(t.d)
  IN  CHOOSE s \in Texts : Chars(s) = c

(***************************************************************************)
(* DataFrames.                                                             *)
(***************************************************************************)
None == [none |-> TRUE]

EmptyDict == [keys |-> {}]

RequiredColumns == <<"date", "store", "menu_item", "revenue", "qty", "customer_segment">>

HasCol(df, c) == c \in Range(df.columns)

HasCols(df, cs) == \A c \in cs : HasCol(df, c)

RowIdx(df) == 1..df.nrows

\* df[c] = vals: an existing column is overwritten in place, a new one is
\* appended to the column labels.
SetCol(df, c, vals) ==
  [columns |-> IF HasCol(df, c) THEN df.columns ELSE Append(df.columns, c),
   nrows |-> df.nrows,
   col |-> LET v == TupleOf(vals, df.nrows)
           IN  [k \in DOMAIN df.col \cup {c} |-> IF k = c THEN v ELSE df.col[k]]]

\* df[mask] and df.iloc[idx]: the rows at the positions idx, in that order.
TakeRows(df, idx) ==
  [columns |-> df.columns,
   nrows |-> Len(idx),
   col |-> [k \in DOMAIN df.col |->
             TupleOf([i \in 1..Len(idx) |-> df.col[k][idx[i]]], Len(idx))]]

\* The sorted sequence of the elements of S under the strict total order Lt.
SortSet(S, Lt(_, _)) ==
  TupleOf([i \in 1..Cardinality(S) |->
             CHOOSE e \in S : Cardinality({y \in S : Lt(y, e)}) = i - 1],
          Cardinality(S))

\* Series.unique(): the distinct cells in order of first appearance.
RECURSIVE Unique(_)
Unique(s) ==
  IF Len(s) = 0 THEN <<>>
  ELSE LET front == Unique(SubSeq(s, 1, Len(s) - 1))
       IN  IF s[Len(s)] \in Range(front) THEN front ELSE Append(front, s[Len(s)])

\* The positions of the rows whose cell in keycol is key.
GroupIdx(keycol, key) ==
  SelectIdx(Len(keycol), [i \in DOMAIN keycol |-> keycol[i] = key], 1)

Pick(column, idx) == TupleOf([i \in 1..Len(idx) |-> column[idx[i]]], Len(idx))

IntsToNum(s) == TupleOf([i \in DOMAIN s |-> Num(s[i])], Len(s))

\* groupby(key) sorts the group keys: text by code point.
TextKeys(keycol) == SortSet(Range(keycol), StrLt)

IntKeys(keycol) == SortSet(Range(keycol), LAMBDA a, b : a < b)

IsTimestamp(cell) == "y" \in DOMAIN cell

DateLt(a, b) ==
  IF IsTimestamp(a) /\ IsTimestamp(b) THEN Ordinal(a) < Ordinal(b)
  ELSE StrLt(a.text, b.text)

\* The dates latest first.
DateKeysLatestFirst(keycol) == SortSet(Range(keycol), LAMBDA a, b : DateLt(b, a))

DateKeys(keycol) == SortSet(Range(keycol), DateLt)

\* The position of the first largest value among the positions in idx.
FirstMax(vals, idx) ==
  CHOOSE i \in Range(idx) :
    /\ \A j \in Range(idx) : ~RLt(vals[i], vals[j])
    /\ \A j \in Range(idx) : (j < i) => RLt(vals[j], vals[i])

FirstMin(vals, idx) ==
  CHOOSE i \in Range(idx) :
    /\ \A j \in Range(idx) : ~RLt(vals[j], vals[i])
    /\ \A j \in Range(idx) : (j < i) => RLt(vals[i], vals[j])

Without(idx, i) == SelectIdx(Len(idx), [k \in DOMAIN idx |-> idx[k] # i], 1)

RECURSIVE NLargestFrom(_, _, _)
NLargestFrom(vals, idx, n) ==
  IF n = 0 \/ Len(idx) = 0 THEN <<>>
  ELSE LET i == FirstMax(vals, idx)
       IN  <<i>> \o NLargestFrom(vals, Pick(idx, Without(idx, i)), n - 1)

RECURSIVE NSmallestFrom(_, _, _)
NSmallestFrom(vals, idx, n) ==
  IF n = 0 \/ Len(idx) = 0 THEN <<>>
  ELSE LET i == FirstMin(vals, idx)
       IN  <<i>> \o NSmallestFrom(vals, Pick(idx, Without(idx, i)), n - 1)

\* nlargest(n) / nsmallest(n) with keep='first': positions of the n largest
\* (smallest) values, largest (smallest) first, ties in order of appearance.
\* The first n positions, whatever the values.
NLargestUnsorted(vals, n) == [i \in 1..Min2(n, Len(vals)) |-> i]

NLargest(vals, n) == NLargestFrom(vals, [i \in DOMAIN vals |-> i], n)

NSmallest(vals, n) == NSmallestFrom(vals, [i \in DOMAIN vals |-> i], n)

\* series.nlargest(n) of an ordered dict of [key, value] entries: the n
\* entries with the largest values.
ValuesOf(entries) == Tuple([i \in DOMAIN entries |-> entries[i].value])

\* The first n entries in key order, whatever their values.
TopInKeyOrder(entries, n) == Take(entries, n)

TopByValue(entries, n) == Pick(entries, NLargest(ValuesOf(entries), n))

(***************************************************************************)
(* CSV files.  pd.read_csv gives a fresh DataFrame whose date column is    *)
(* text and whose columns are the ones of the file's header.               *)
(***************************************************************************)
RowA ==
  [date |-> "2024-01-15", store |-> "Store A", menu_item |-> "Nasi Goreng",
   revenue |-> Num(85000), qty |-> 5, customer_segment |-> "Regular"]

RowB ==
  [date |-> "2024-01-15", store |-> "Store B", menu_item |-> "Ayam Bakar",
   revenue |-> Num(78000), qty |-> 4, customer_segment |-> "Premium"]

RowC ==
  [date |-> "2024-01-16", store |-> "Store A", menu_item |-> "Es Teh",
   revenue |-> Num(15000), qty |-> 10, customer_segment |-> "Budget"]

\* A row with qty = 0 and an amount with decimals.
RowD ==
  [date |-> "2024-02-05", store |-> "Store B", menu_item |-> "Es Teh",
   revenue |-> Rat(2500050, 100), qty |-> 0, customer_segment |-> "Regular"]

\* A row whose date does not parse.
RowE ==
  [date |-> "2024-13-45", store |-> "Store A", menu_item |-> "Ayam Bakar",
   revenue |-> Num(78000), qty |-> 3, customer_segment |-> "Budget"]

\* A row whose amount has a fraction of a cent: 12500.125.
RowF ==
  [date |-> "2024-01-16", store |-> "Store B", menu_item |-> "Nasi Goreng",
   revenue |-> Rat(100001, 8), qty |-> 2, customer_segment |-> "Premium"]

\* A complimentary item: a row with revenue 0.
RowG ==
  [date |-> "2024-01-16", store |-> "Store A", menu_item |-> "Es Teh",
   revenue |-> Num(0), qty |-> 1, customer_segment |-> "Regular"]

CsvCell(c, row) == IF c = "date" THEN [text |-> row.date] ELSE row[c]

\* The DataFrame pd.read_csv builds from a file with this header and rows.
Frame(header, rows) ==
  [columns |-> header,
   nrows |-> Len(rows),
   col |-> [c \in Range(header) |-> Tuple([i \in 1..Len(rows) |-> CsvCell(c, rows[i])])]]

Header(missing) ==
  LET keep == [i \in DOMAIN RequiredColumns |-> RequiredColumns[i] # missing]
  IN  Pick(RequiredColumns, SelectIdx(Len(RequiredColumns), keep, 1))

(***************************************************************************)
(* DataProcessor: normalisation and summary.  An operation that can raise  *)
(* yields [err, ...]: err = "" when it returns, the exception's type when  *)
(* it raises.                                                              *)
(***************************************************************************)
\* The column has dtype datetime64 (every cell a Timestamp), not text.
IsDatetimeColumn(df, c) == \A i \in RowIdx(df) : IsTimestamp(df.col[c][i])

ToTimestamp(cell) == IF IsTimestamp(cell) THEN cell ELSE to_datetime(cell.text)

CellParseable(cell) == IsTimestamp(cell) \/ Parseable(cell.text)

\* Q1 - 1.5*IQR and Q3 + 1.5*IQR over the whole revenue column.
Fences(Q1, Q3) ==
  [lower_bound |-> RSub(Q1, RMul(Rat(3, 2), RSub(Q3, Q1))),
   upper_bound |-> RAdd(Q3, RMul(Rat(3, 2), RSub(Q3, Q1)))]

OutlierBounds(revenue) == Fences(Quantile(revenue, 1, 4), Quantile(revenue, 3, 4))

\* self.df['is_outlier'] = (revenue < lower_bound) | (revenue > upper_bound)
OutsideFences(revenue, b) ==
  Tuple([i \in DOMAIN revenue |-> RLt(revenue[i], b.lower_bound)
                                    \/ RGt(revenue[i], b.upper_bound)])

\* Outlier flagging that removes the flagged rows.
FlagOutliersDropped(df) ==
  LET flags == OutsideFences(df.col["revenue"], OutlierBounds(df.col["revenue"]))
  IN  TakeRows(SetCol(df, "is_outlier", flags),
               SelectIdx(df.nrows, [i \in RowIdx(df) |-> ~flags[i]], 1))

FlagOutliers(df) ==
  SetCol(df, "is_outlier", OutsideFences(df.col["revenue"], OutlierBounds(df.col["revenue"])))

\* The derived columns avg_price, month, day_of_week, week.
AddDerived(df) ==
  LET d1 == SetCol(df, "avg_price",
                   [i \in RowIdx(df) |-> RDiv(df.col["revenue"][i], Num(df.col["qty"][i]))])
      d2 == SetCol(d1, "month", [i \in RowIdx(df) |-> df.col["date"][i].m])
      d3 == SetCol(d2, "day_of_week", [i \in RowIdx(df) |-> DayName(df.col["date"][i])])
  IN  SetCol(d3, "week", [i \in RowIdx(df) |-> IsoWeek(df.col["date"][i])])

\* _clean_data works on self.df in place: when a step raises, self.df keeps
\* the columns written by the steps before it.
CleanFromQty(d2) ==
  IF ~HasCol(d2, "qty") THEN [err |-> "KeyError", df |-> d2]
  ELSE [err |-> "", df |-> AddDerived(d2)]

CleanFromRevenue(d1) ==
  IF ~HasCol(d1, "revenue") THEN [err |-> "KeyError", df |-> d1]
  ELSE CleanFromQty(FlagOutliers(d1))

_clean_data(df) ==
  IF df = None THEN [err |-> "", df |-> df]
  ELSE IF ~HasCol(df, "date") THEN [err |-> "KeyError", df |-> df]
  ELSE IF \E i \in RowIdx(df) : ~CellParseable(df.col["date"][i])
    THEN [err |-> "ValueError", df |-> df]
  ELSE CleanFromRevenue(
         SetCol(df, "date", [i \in RowIdx(df) |-> ToTimestamp(df.col["date"][i])]))

\* groupby(key)[val].sum() as an ordered dict: one [key, value] per group,
\* keys sorted.
GroupSumOver(keycol, vals, keys) ==
  Tuple([k \in DOMAIN keys |->
           [key |-> keys[k], value |-> SeriesSum(Pick(vals, GroupIdx(keycol, keys[k])))]])

GroupSum(keycol, vals) == GroupSumOver(keycol, vals, TextKeys(keycol))

MinDate(dates) == CHOOSE t \in Range(dates) : \A u \in Range(dates) : Ordinal(t) <= Ordinal(u)

MaxDate(dates) == CHOOSE t \in Range(dates) : \A u \in Range(dates) : Ordinal(t) >= Ordinal(u)

TopSellingCount == 5

\* The dict built by _generate_summary; the dict is built whole before it is
\* assigned, so a raise leaves the old summary.  min() of an empty date column
\* is NaT, and NaT.strftime raises ValueError; the min() of a text column is
\* a str, which has no strftime.
_generate_summary(df) ==
  IF ~HasCol(df, "date") THEN [err |-> "KeyError"]
  ELSE IF df.nrows = 0 THEN [err |-> "ValueError"]
  ELSE IF ~IsDatetimeColumn(df, "date") THEN [err |-> "AttributeError"]
  ELSE IF ~HasCols(df, {"revenue", "qty", "store", "customer_segment", "menu_item"})
    THEN [err |-> "KeyError"]
  ELSE [err |-> "",
        summary |->
          [total_records |-> df.nrows,
           date_range |-> [start |-> strftime(MinDate(df.col["date"])),
                           end |-> strftime(MaxDate(df.col["date"]))],
           total_revenue |-> SeriesSum(df.col["revenue"]),
           total_qty_sold |-> SeriesSum(IntsToNum(df.col["qty"])),
           avg_transaction_value |-> SeriesMean(df.col["revenue"]),
           stores |-> Unique(df.col["store"]),
           customer_segments |-> Unique(df.col["customer_segment"]),
           unique_menu_items |-> Cardinality(Range(df.col["menu_item"])),
           top_selling_items |->
             TopByValue(GroupSum(df.col["menu_item"], IntsToNum(df.col["qty"])),
                        TopSellingCount),
           revenue_by_store |-> GroupSum(df.col["store"], df.col["revenue"]),
           revenue_by_segment |-> GroupSum(df.col["customer_segment"], df.col["revenue"])]]

(***************************************************************************)
(* DataProcessor: the aggregation functions.  Each yields [err, val]:      *)
(* err = "" and the returned value, or the type of the exception raised.   *)
(***************************************************************************)
Ok(v) == [err |-> "", val |-> v]

Raise(e) == [err |-> e, val |-> EmptyDict]

\* One record per group key, keys in the given order, with the sum of the
\* revenue and qty columns over the group's rows.
SumByKey(df, keycol, keys) ==
  Tuple([k \in DOMAIN keys |->
           [key |-> keys[k],
            revenue |-> SeriesSum(Pick(df.col["revenue"], GroupIdx(keycol, keys[k]))),
            qty |-> SeriesSum(IntsToNum(Pick(df.col["qty"], GroupIdx(keycol, keys[k]))))]])

MeanByKey(df, keycol, keys) ==
  Tuple([k \in DOMAIN keys |->
           [key |-> keys[k],
            revenue |-> SeriesMean(Pick(df.col["revenue"], GroupIdx(keycol, keys[k]))),
            qty |-> SeriesMean(IntsToNum(Pick(df.col["qty"], GroupIdx(keycol, keys[k]))))]])

get_sales_trends(df) ==
  IF df = None THEN Ok(EmptyDict)
  ELSE IF ~HasCols(df, {"date", "revenue", "qty", "month", "day_of_week"})
    THEN Raise("KeyError")
  ELSE Ok([daily_trends |-> SumByKey(df, df.col["date"], DateKeys(df.col["date"])),
           monthly_trends |-> SumByKey(df, df.col["month"], IntKeys(df.col["month"])),
           weekly_patterns |->
             MeanByKey(df, df.col["day_of_week"], TextKeys(df.col["day_of_week"]))])

TopPerformers == 10

LowPerformers == 5

\* groupby('menu_item').agg(...).round(2) with the renamed columns, one record
\* per menu item, items sorted.
MenuRecord(key, rev, qty, price) ==
  [menu_item |-> key,
   total_revenue |-> Round2(SeriesSum(rev)),
   avg_revenue |-> Round2(SeriesMean(rev)),
   frequency |-> Len(DropNaN(rev)),
   total_qty |-> SeriesSum(qty),
   avg_price |-> Round2(SeriesMean(price))]

\* A grouping that counts only the first row of each item.
MenuGroupFirstRow(df, key, idx) ==
  MenuRecord(key, Pick(df.col["revenue"], Take(idx, 1)),
             IntsToNum(Pick(df.col["qty"], Take(idx, 1))),
             Pick(df.col["avg_price"], Take(idx, 1)))

MenuGroup(df, key, idx) ==
  MenuRecord(key, Pick(df.col["revenue"], idx), IntsToNum(Pick(df.col["qty"], idx)),
             Pick(df.col["avg_price"], idx))

MenuGroups(df, keys) ==
  Tuple([k \in DOMAIN keys |-> MenuGroup(df, keys[k], GroupIdx(df.col["menu_item"], keys[k]))])

MenuTable(df) == MenuGroups(df, TextKeys(df.col["menu_item"]))

MaxOf(s) == CHOOSE v \in Range(s) : \A w \in Range(s) : w <= v

\* A categorisation whose comparisons with the thresholds are not strict.
categorize_inclusive(total_revenue, all_revenue) ==
  IF ~RLt(total_revenue, Quantile(all_revenue, 4, 5)) THEN "High Performer"
  ELSE IF ~RGt(total_revenue, Quantile(all_revenue, 1, 5)) THEN "Low Performer"
  ELSE "Average"

categorize_performance(total_revenue, all_revenue) ==
  IF RGt(total_revenue, Quantile(all_revenue, 4, 5)) THEN "High Performer"
  ELSE IF RLt(total_revenue, Quantile(all_revenue, 1, 5)) THEN "Low Performer"
  ELSE "Average"

TotalRevenues(t) == Tuple([i \in DOMAIN t |-> t[i].total_revenue])

Frequencies(t) == Tuple([i \in DOMAIN t |-> t[i].frequency])

\* The columns added after the groupby: revenue_per_order, popularity_score
\* and performance_category.
MenuRow(r, revs, maxfreq) ==
  [menu_item |-> r.menu_item,
   total_revenue |-> r.total_revenue,
   avg_revenue |-> r.avg_revenue,
   frequency |-> r.frequency,
   total_qty |-> r.total_qty,
   avg_price |-> r.avg_price,
   revenue_per_order |-> RDiv(r.total_revenue, Num(r.frequency)),
   popularity_score |-> RMul(RDiv(Num(r.frequency), Num(maxfreq)), Num(100)),
   performance_category |-> categorize_performance(r.total_revenue, revs)]

MenuRows(t, revs, maxfreq) == Tuple([i \in DOMAIN t |-> MenuRow(t[i], revs, maxfreq)])

MenuColumns(t) == MenuRows(t, TotalRevenues(t), MaxOf(Frequencies(t)))

MenuAnalysis(df) == MenuColumns(MenuTable(df))

Performer(r) ==
  [menu_item |-> r.menu_item, total_revenue |-> r.total_revenue, total_qty |-> r.total_qty]

\* On a table without rows (a CSV file with a header only) every column has
\* dtype object, so does total_revenue, and nlargest refuses an object column
\* with a TypeError.
Performers(m, idx) == Tuple([i \in DOMAIN idx |-> Performer(m[idx[i]])])

MenuResult(m, revs) ==
  Ok([menu_performance |-> m,
      top_performers |-> Performers(m, NLargest(revs, TopPerformers)),
      low_performers |-> Performers(m, NSmallest(revs, LowPerformers))])

MenuResultOf(m) == MenuResult(m, TotalRevenues(m))

analyze_menu_performance(df) ==
  IF df = None THEN Ok(EmptyDict)
  ELSE IF ~HasCols(df, {"menu_item", "revenue", "qty", "avg_price"}) THEN Raise("KeyError")
  ELSE IF df.nrows = 0 THEN Raise("TypeError")
  ELSE MenuResultOf(MenuAnalysis(df))

\* Series.describe() without std (a square root): count, mean, min, the three
\* quartiles, max.
DescribeSorted(vals, v) ==
  [count |-> Len(v),
   mean |-> SeriesMean(vals),
   min |-> IF Len(v) = 0 THEN NaN ELSE v[1],
   q25 |-> QuantileSorted(v, 1, 4),
   q50 |-> QuantileSorted(v, 1, 2),
   q75 |-> QuantileSorted(v, 3, 4),
   max |-> IF Len(v) = 0 THEN NaN ELSE v[Len(v)]]

Describe(vals) == DescribeSorted(vals, RSort(DropNaN(vals)))

SegmentRecord(key, rev, qty, price, seg_revenue, total_revenue) ==
  [customer_segment |-> key,
   total_revenue |-> seg_revenue,
   avg_revenue_per_transaction |-> Round2(SeriesMean(rev)),
   transaction_count |-> Len(DropNaN(rev)),
   total_qty |-> SeriesSum(qty),
   avg_qty_per_transaction |-> Round2(SeriesMean(qty)),
   avg_price_per_item |-> Round2(SeriesMean(price)),
   revenue_share |-> Round2(RMul(RDiv(seg_revenue, total_revenue), Num(100))),
   customer_value |-> RDiv(seg_revenue, Num(Len(DropNaN(rev))))]

\* Each segment's share taken of the segment's own total.
SegmentGroupOwnTotal(df, key, rev, idx) ==
  SegmentRecord(key, rev, IntsToNum(Pick(df.col["qty"], idx)),
                Pick(df.col["avg_price"], idx), Round2(SeriesSum(rev)),
                SeriesSum(rev))

SegmentGroup(df, key, rev, idx) ==
  SegmentRecord(key, rev, IntsToNum(Pick(df.col["qty"], idx)),
                Pick(df.col["avg_price"], idx), Round2(SeriesSum(rev)),
                SeriesSum(df.col["revenue"]))

SegmentGroupAt(df, key, idx) == SegmentGroup(df, key, Pick(df.col["revenue"], idx), idx)

SegmentGroups(df, keys) ==
  Tuple([k \in DOMAIN keys |->
           SegmentGroupAt(df, keys[k], GroupIdx(df.col["customer_segment"], keys[k]))])

SegmentTable(df) == SegmentGroups(df, TextKeys(df.col["customer_segment"]))

SegmentComparison(df, keys) ==
  Tuple([k \in DOMAIN keys |->
           [customer_segment |-> keys[k],
            avg_price |-> Describe(Pick(df.col["avg_price"],
                                        GroupIdx(df.col["customer_segment"], keys[k])))]])

analyze_customer_segments(df) ==
  IF df = None THEN Ok(EmptyDict)
  ELSE IF ~HasCols(df, {"customer_segment", "revenue", "qty", "avg_price"})
    THEN Raise("KeyError")
  ELSE Ok([segment_performance |-> SegmentTable(df),
           segment_comparison |-> SegmentComparison(df, TextKeys(df.col["customer_segment"]))])

StoreRecord(key, rev, qty, items, store_revenue, days) ==
  [store |-> key,
   total_revenue |-> store_revenue,
   avg_revenue_per_transaction |-> Round2(SeriesMean(rev)),
   transaction_count |-> Len(DropNaN(rev)),
   total_qty_sold |-> SeriesSum(qty),
   avg_qty_per_transaction |-> Round2(SeriesMean(qty)),
   menu_variety |-> Cardinality(Range(items)),
   revenue_per_day |-> RDiv(store_revenue, Num(days)),
   efficiency_score |-> Round2(RDiv(store_revenue, Num(Len(DropNaN(rev)))))]

\* The store's revenue over the number of days the store itself has sold on.
StoreGroupOwnDays(df, key, rev, idx) ==
  StoreRecord(key, rev, IntsToNum(Pick(df.col["qty"], idx)),
              Pick(df.col["menu_item"], idx), Round2(SeriesSum(rev)),
              Cardinality(Range(Pick(df.col["date"], idx))))

StoreGroup(df, key, rev, idx) ==
  StoreRecord(key, rev, IntsToNum(Pick(df.col["qty"], idx)),
              Pick(df.col["menu_item"], idx), Round2(SeriesSum(rev)),
              Cardinality(Range(df.col["date"])))

StoreGroupAt(df, key, idx) == StoreGroup(df, key, Pick(df.col["revenue"], idx), idx)

StoreGroups(df, keys) ==
  Tuple([k \in DOMAIN keys |-> StoreGroupAt(df, keys[k], GroupIdx(df.col["store"], keys[k]))])

StoreTable(df) == StoreGroups(df, TextKeys(df.col["store"]))

PopularItems == 5

\* One entry per store in order of first appearance: the store's items ranked
\* by the quantity sold in that store.
StorePopular(df, store, idx) ==
  [store |-> store,
   popular |-> TopByValue(GroupSum(Pick(df.col["menu_item"], idx),
                                   IntsToNum(Pick(df.col["qty"], idx))),
                          PopularItems)]

StorePopularOver(df, stores) ==
  Tuple([k \in DOMAIN stores |->
           StorePopular(df, stores[k], GroupIdx(df.col["store"], stores[k]))])

StorePopularItems(df) == StorePopularOver(df, Unique(df.col["store"]))

analyze_store_performance(df) ==
  IF df = None THEN Ok(EmptyDict)
  ELSE IF ~HasCols(df, {"store", "revenue", "qty", "menu_item", "date"}) THEN Raise("KeyError")
  ELSE Ok([store_performance |-> StoreTable(df),
           store_popular_items |-> StorePopularItems(df)])

\* DataFrame.corr(): the Pearson coefficient needs a square root, so the
\* model keeps each coefficient as the pair of columns it is computed from
\* (the rows where both cells are numbers).
Pearson(x, y) ==
  LET both == SelectIdx(Len(x), [i \in DOMAIN x |-> ~IsNaN(x[i]) /\ ~IsNaN(y[i])], 1)
  IN  [pearson_of |-> <<Pick(x, both), Pick(y, both)>>]

get_correlation_analysis(df) ==
  IF df = None THEN Ok(EmptyDict)
  ELSE IF ~HasCols(df, {"revenue", "qty", "avg_price"}) THEN Raise("KeyError")
  ELSE LET revenue == df.col["revenue"]
           qty == IntsToNum(df.col["qty"])
           avg_price == df.col["avg_price"]
       IN  Ok([correlation_matrix |->
                 [revenue |-> [revenue |-> Pearson(revenue, revenue),
                               qty |-> Pearson(revenue, qty),
                               avg_price |-> Pearson(revenue, avg_price)],
                  qty |-> [revenue |-> Pearson(qty, revenue),
                           qty |-> Pearson(qty, qty),
                           avg_price |-> Pearson(qty, avg_price)],
                  avg_price |-> [revenue |-> Pearson(avg_price, revenue),
                                 qty |-> Pearson(avg_price, qty),
                                 avg_price |-> Pearson(avg_price, avg_price)]],
               insights |->
                 [price_qty_correlation |-> Pearson(avg_price, qty),
                  price_revenue_correlation |-> Pearson(avg_price, revenue),
                  qty_revenue_correlation |-> Pearson(qty, revenue)]])

(***************************************************************************)
(* DataProcessor.get_data_context_for_llm.  The text is kept as the        *)
(* sequence of its fields, each [label, text]: the label the f-string      *)
(* writes before the value and the characters the value is formatted to.   *)
(* A whole amount is written without decimals, as for an integer column.   *)
(***************************************************************************)
RECURSIVE DecimalDigits(_)
DecimalDigits(k) ==
  IF k < 10 THEN <<Digits[k + 1]>>
  ELSE Append(DecimalDigits(k \div 10), Digits[(k % 10) + 1])

\* format(k, ','): the digits of k with a comma between groups of three.
RECURSIVE Thousands(_)
Thousands(k) ==
  IF k < 1000 THEN DecimalDigits(k)
  ELSE Thousands(k \div 1000) \o <<",", Digits[((k % 1000) \div 100) + 1]>> \o Pad2(k % 100)

\* The decimal places of rem/d; an amount read from a CSV file has finitely
\* many.
RECURSIVE Fraction(_, _)
Fraction(rem, d) ==
  IF rem = 0 THEN <<>>
  ELSE <<Digits[((rem * 10) \div d) + 1]>> \o Fraction((rem * 10) % d, d)

\* format(x, ',') when grouped, str(x) otherwise.
FormatNumber(x, grouped) ==
  IF IsNaN(x) THEN <<"n", "a", "n">>
  ELSE IF ~IsFinite(x) THEN (IF x.n < 0 THEN <<"-">> ELSE <<>>) \o <<"i", "n", "f">>
  ELSE (IF x.n < 0 THEN <<"-">> ELSE <<>>)
       \o (IF grouped THEN Thousands(Abs(x.n) \div x.d) ELSE DecimalDigits(Abs(x.n) \div x.d))
       \o (IF Abs(x.n) % x.d = 0 THEN <<>> ELSE <<".">> \o Fraction(Abs(x.n) % x.d, x.d))

\* ', '.join(names)
RECURSIVE Join(_)
Join(names) ==
  IF Len(names) = 0 THEN <<>>
  ELSE IF Len(names) = 1 THEN Chars(names[1])
  ELSE Chars(names[1]) \o <<",", " ">> \o Join(Tail(names))

\* json.dumps writes the float specials as NaN and Infinity.
JsonNumber(x) ==
  IF IsNaN(x) THEN <<"N", "a", "N">>
  ELSE IF ~IsFinite(x)
    THEN (IF x.n < 0 THEN <<"-">> ELSE <<>>) \o <<"I", "n", "f", "i", "n", "i", "t", "y">>
  ELSE FormatNumber(x, FALSE)

RECURSIVE JsonEntries(_, _)
JsonEntries(entries, i) ==
  IF i > Len(entries) THEN <<>>
  ELSE <<"\n", " ", " ", "\"">> \o Chars(entries[i].key) \o <<"\"", ":", " ">>
       \o JsonNumber(entries[i].value)
       \o (IF i < Len(entries) THEN <<",">> ELSE <<>>)
       \o JsonEntries(entries, i + 1)

\* json.dumps(d, indent=2) of an ordered dict of [key, value] entries: one
\* line per entry, in the dict's order.
json_dumps(entries) ==
  IF Len(entries) = 0 THEN <<"{", "}">>
  ELSE <<"{">> \o JsonEntries(entries, 1) \o <<"\n", "}">>

Field(label, text) == [label |-> label, text |-> text]

NoDataLoaded == <<Field("No data loaded", <<>>)>>

\* The f-string of lines 204-224, read from the keys of data_summary.
ContextText(summary) ==
  << Field("Total Records", DecimalDigits(summary.total_records)),
     Field("Date Range",
           Chars(summary.date_range.start) \o <<" ", "t", "o", " ">>
             \o Chars(summary.date_range.end)),
     Field("Total Revenue", <<"R", "p", " ">> \o FormatNumber(summary.total_revenue, TRUE)),
     Field("Total Items Sold", FormatNumber(summary.total_qty_sold, FALSE)),
     Field("Average Transaction",
           <<"R", "p", " ">> \o FormatNumber(RoundTo(summary.avg_transaction_value, 0), TRUE)),
     Field("STORES", Join(summary.stores)),
     Field("CUSTOMER SEGMENTS", Join(summary.customer_segments)),
     Field("UNIQUE MENU ITEMS", DecimalDigits(summary.unique_menu_items)),
     Field("TOP SELLING ITEMS", json_dumps(summary.top_selling_items)),
     Field("REVENUE BY STORE", json_dumps(summary.revenue_by_store)),
     Field("REVENUE BY SEGMENT", json_dumps(summary.revenue_by_segment)) >>

\* A context that counts the rows of the table instead of reading the
\* summary.
get_data_context_from_table(t, summary) ==
  IF t = None THEN Ok(NoDataLoaded)
  ELSE IF summary = EmptyDict THEN Raise("KeyError")
  ELSE Ok(ContextText([summary EXCEPT !.total_records = t.nrows]))

\* "No data loaded" without a table; reading a key of the empty summary
\* raises KeyError.
get_data_context_for_llm(t, summary) ==
  IF t = None THEN Ok(NoDataLoaded)
  ELSE IF summary = EmptyDict THEN Raise("KeyError")
  ELSE Ok(ContextText(summary))

(***************************************************************************)
(* search_data.  str.contains treats the query as a regular expression     *)
(* (regex=True is the default): "." matches any character and a pattern    *)
(* with an unclosed "(" does not compile (re.error).                       *)
(***************************************************************************)
UpperLetters ==
  <<"A", "B", "C", "D", "E", "F", "G", "H", "I", "J", "K", "L", "M",
    "N", "O", "P", "Q", "R", "S", "T", "U", "V", "W", "X", "Y", "Z">>

LowerLetters ==
  <<"a", "b", "c", "d", "e", "f", "g", "h", "i", "j", "k", "l", "m",
    "n", "o", "p", "q", "r", "s", "t", "u", "v", "w", "x", "y", "z">>

LowerChar(c) ==
  IF c \in Range(UpperLetters)
    THEN LowerLetters[CHOOSE i \in DOMAIN UpperLetters : UpperLetters[i] = c]
    ELSE c

\* str.lower()
Lower(chars) == TupleOf([i \in DOMAIN chars |-> LowerChar(chars[i])], Len(chars))

RegexCompiles(pattern) == "(" \notin Range(pattern)

MatchAt(pattern, text, off) ==
  \A k \in DOMAIN pattern : pattern[k] = "." \/ pattern[k] = text[off + k]

\* re.search(pattern, text) finds a match
RegexSearch(pattern, text) ==
  \E off \in 0..(Len(text) - Len(pattern)) : MatchAt(pattern, text, off)

EmptyFrame == [columns |-> <<>>, nrows |-> 0, col |-> [k \in {} |-> <<>>]]

SearchColumns == {"menu_item", "store", "customer_segment"}

SearchMask(df, q) ==
  [i \in RowIdx(df) |-> \E c \in SearchColumns : RegexSearch(q, Lower(Chars(df.col[c][i])))]

SearchWith(df, q) ==
  IF ~RegexCompiles(q) THEN Raise("re.error")
  ELSE Ok(TakeRows(df, SelectIdx(df.nrows, SearchMask(df, q), 1)))

search_data(df, query) ==
  IF df = None THEN Ok(EmptyFrame)
  ELSE IF ~HasCols(df, SearchColumns) THEN Raise("KeyError")
  ELSE SearchWith(df, Lower(Chars(query)))

(***************************************************************************)
(* DataVisualizer: what a chart function does to the DataFrame it is       *)
(* given (the dashboard passes dp.df itself, not a copy) and whether it    *)
(* raises.  Each yields [err, df]; the figure is not modelled.             *)
(***************************************************************************)
Chart(e, df) == [err |-> e, df |-> df]

plot_sales_trend(df) ==
  IF HasCols(df, {"date", "revenue", "qty"}) THEN Chart("", df) ELSE Chart("KeyError", df)

\* nlargest on the revenue column of a table without rows (dtype object)
\* raises TypeError.
plot_menu_performance(df) ==
  IF ~HasCols(df, {"menu_item", "revenue", "qty"}) THEN Chart("KeyError", df)
  ELSE IF df.nrows = 0 THEN Chart("TypeError", df)
  ELSE Chart("", df)

plot_store_comparison(df) ==
  IF HasCols(df, {"store", "revenue", "qty", "menu_item"}) THEN Chart("", df)
  ELSE Chart("KeyError", df)

plot_customer_segments(df) ==
  IF HasCols(df, {"customer_segment", "revenue", "qty"}) THEN Chart("", df)
  ELSE Chart("KeyError", df)

\* df['day_of_week'] = df['date'].dt.day_name()
WriteDayOfWeek(df) ==
  SetCol(df, "day_of_week", [i \in RowIdx(df) |-> DayName(df.col["date"][i])])

\* df['avg_price'] = df['revenue'] / df['qty']
WriteAvgPrice(df) ==
  SetCol(df, "avg_price",
         [i \in RowIdx(df) |-> RDiv(df.col["revenue"][i], Num(df.col["qty"][i]))])

plot_weekly_patterns(df) ==
  IF ~HasCol(df, "date") THEN Chart("KeyError", df)
  ELSE IF ~IsDatetimeColumn(df, "date") THEN Chart("AttributeError", df)
  ELSE IF ~HasCols(df, {"revenue", "qty"}) THEN Chart("KeyError", WriteDayOfWeek(df))
  ELSE Chart("", WriteDayOfWeek(df))

plot_price_quantity_correlation(df) ==
  IF ~HasCols(df, {"revenue", "qty"}) THEN Chart("KeyError", df)
  ELSE IF ~HasCol(df, "customer_segment") THEN Chart("KeyError", WriteAvgPrice(df))
  ELSE Chart("", WriteAvgPrice(df))

create_dashboard_summary(df) ==
  IF ~HasCols(df, {"menu_item", "revenue", "store", "customer_segment", "date"})
    THEN Chart("KeyError", df)
  ELSE IF df.nrows = 0 THEN Chart("TypeError", df)
  ELSE IF ~IsDatetimeColumn(df, "date") THEN Chart("AttributeError", df)
  ELSE Chart("", WriteDayOfWeek(df))

(***************************************************************************)
(* The files a session can load, and the queries it can search for.        *)
(***************************************************************************)
File(header, rows) == [readable |-> TRUE, frame |-> Frame(header, rows)]

\* A path that does not exist, or an upload pd.read_csv cannot read.
Unreadable == [readable |-> FALSE, frame |-> EmptyFrame]

ScenarioFile == File(RequiredColumns, <<RowA, RowB, RowC>>)

ZeroQtyFile == File(RequiredColumns, <<RowA, RowD>>)

BadDateFile == File(RequiredColumns, <<RowB, RowE>>)

NoDateFile == File(Header("date"), <<RowA, RowC>>)

NoRevenueFile == File(Header("revenue"), <<RowA, RowB>>)

HeaderOnlyFile == File(RequiredColumns, <<>>)

SessionFiles ==
  { ScenarioFile, ZeroQtyFile, BadDateFile, NoDateFile, NoRevenueFile, HeaderOnlyFile,
    Unreadable }

Queries == {"", "TEH"}

\* Menus of up to MaxItems items, to have more items than the analysis
\* lists: one row per item, the amounts taken from ItemRevenues starting at
\* any of ItemShifts places, or the same amount for every item, or one item
\* on two rows.
MaxItems == 12

ItemShifts == 4

ItemNames ==
  << "Menu 01", "Menu 02", "Menu 03", "Menu 04", "Menu 05", "Menu 06", "Menu 07",
     "Menu 08", "Menu 09", "Menu 10", "Menu 11", "Menu 12", "Menu 13", "Menu 14" >>

ItemRevenues ==
  << 85000, 78000, 15000, 15000, 42000, 9000, 61000, 27000, 33000, 5000, 97000, 12000 >>

ItemRow(k, amount) ==
  [date |-> "2024-01-15", store |-> "Store A", menu_item |-> ItemNames[k],
   revenue |-> Num(amount), qty |-> 1, customer_segment |-> "Regular"]

ItemAmount(k, shift) == ItemRevenues[((k + shift - 1) % Len(ItemRevenues)) + 1]

ItemRows(n, shift, mode) ==
  [k \in 1..n |-> ItemRow(k, IF mode = "flat" THEN 15000 ELSE ItemAmount(k, shift))]
    \o (IF mode = "repeat" /\ n > 0 THEN <<ItemRow(1, 30000)>> ELSE <<>>)

ItemTables ==
  { File(RequiredColumns, ItemRows(n, shift, mode)) :
      n \in 0..MaxItems, shift \in 0..(ItemShifts - 1), mode \in {"spread", "flat", "repeat"} }
    \cup {ScenarioFile}

\* Sales of two days, two stores and three segments: up to MaxItems rows
\* over seven menu items, so that an item has more than one row and a table
\* has more items than a top-5 list; Store B sells on one of the days only,
\* and one amount has a fraction of a cent.
LedgerSegments == <<"Regular", "Premium", "Budget">>

LedgerRow(k, shift) ==
  [date |-> IF k % 2 = 0 \/ k % 3 = 0 THEN "2024-01-15" ELSE "2024-01-16",
   store |-> IF k % 3 = 0 THEN "Store B" ELSE "Store A",
   menu_item |-> ItemNames[((k - 1) % 7) + 1],
   revenue |-> IF k = 5 THEN Rat(100001, 8) ELSE Num(ItemAmount(k, shift)),
   qty |-> ((3 * k + shift) % 4) + 1,
   customer_segment |-> LedgerSegments[(k % 3) + 1]]

LedgerRows(n, shift) == [k \in 1..n |-> LedgerRow(k, shift)]

LedgerTables ==
  { File(RequiredColumns, LedgerRows(n, shift)) : n \in 0..MaxItems, shift \in 0..(ItemShifts - 1) }

\* Every table of at most MaxRows rows with a full header and parseable dates.
TableRows == {RowA, RowB, RowC, RowD, RowF, RowG}

AllTables == {File(RequiredColumns, rows) : rows \in SeqsUpTo(TableRows, MaxRows)}

(***************************************************************************)
(* State.                                                                  *)
(*   df, data_summary   the DataProcessor's fields                         *)
(*   data_loaded        st.session_state.data_loaded                       *)
(*   raw_csv            what pd.read_csv returned in the last load, as it  *)
(*                      was when it was returned (None outside a load)     *)
(*   caller_df          the upload path's local df as it is when the path  *)
(*                      reads it at lines 101-103 (None outside an upload) *)
(*   last               the last operation: its name, argument, the        *)
(*                      exception it raised ("" if none), its return value *)
(*   held               the first aggregation call since the last load or  *)
(*                      chart, with the result it returned                 *)
(*   repeat             how the last operation repeats the held call:      *)
(*                      "direct" right after the same call, "after_others" *)
(*                      with other aggregation calls in between, else "no" *)
(*   reloaded           the last successful load replaced a table that was *)
(*                      different from the one it left                     *)
(*   llm                the QwenClient call in progress or last finished:  *)
(*                      whether it waits for the endpoint, the number of   *)
(*                      requests.post calls it has made, the method or     *)
(*                      dashboard handler that made it, the aggregation    *)
(*                      functions the handler called first, the messages   *)
(*                      it sent, the response it received                  *)
(*   chat_history       st.session_state.chat_history: the (question,      *)
(*                      answer) pairs of the questions tab                 *)
(***************************************************************************)
VARIABLES df, data_summary, data_loaded, raw_csv, caller_df, last, held, repeat, reloaded, llm,
          chat_history

vars ==
  <<df, data_summary, data_loaded, raw_csv, caller_df, last, held, repeat, reloaded, llm,
    chat_history>>

Op(name, arg, err, val) == [op |-> name, arg |-> arg, err |-> err, val |-> val]

NoOp == Op("__init__", "", "", EmptyDict)

\* No request has been made.
NoMessages ==
  [system |-> [source |-> "", key |-> ""], user |-> [template |-> "", filled |-> <<>>]]

NoCall ==
  [waiting |-> FALSE, posts |-> 0, by |-> "", arg |-> "", aggregations |-> <<>>,
   messages |-> NoMessages, response |-> None]

Init ==
  /\ df = None
  /\ data_summary = EmptyDict
  /\ data_loaded = FALSE
  /\ raw_csv = None
  /\ caller_df = None
  /\ last = NoOp
  /\ held = NoOp
  /\ repeat = "no"
  /\ reloaded = FALSE
  /\ llm = NoCall
  /\ chat_history = <<>>

\* A load that keeps the table the processor already holds.
AssignDfOnce(old, frame) == IF old = None THEN frame ELSE old

\* self.df = pd.read_csv(...): the new table replaces the old one.
AssignDf(old, frame) == frame

\* The three statements every load runs on the processor: assign df,
\* _clean_data(), _generate_summary().  A raise leaves what the statements
\* before it have written.
Summarised(t, g, old_summary) ==
  IF g.err # "" THEN [err |-> g.err, df |-> t, data_summary |-> old_summary]
  ELSE [err |-> "", df |-> t, data_summary |-> g.summary]

Cleaned(c, old_summary) ==
  IF c.err # "" THEN [err |-> c.err, df |-> c.df, data_summary |-> old_summary]
  ELSE Summarised(c.df, _generate_summary(c.df), old_summary)

LoadInto(old_df, old_summary, frame) ==
  Cleaned(_clean_data(AssignDf(old_df, frame)), old_summary)

\* DataProcessor.load_dataset: pd.read_csv raises before self.df is assigned
\* when the file cannot be read; every exception is re-raised.
load_dataset(old_df, old_summary, file) ==
  IF ~file.readable
    THEN [err |-> "FileNotFoundError", df |-> old_df, data_summary |-> old_summary]
    ELSE LoadInto(old_df, old_summary, file.frame)

\* What a load with the outcome r leaves in the history variables.
Loaded(r) ==
  /\ held' = NoOp
  /\ repeat' = "no"
  /\ reloaded' = IF r.err = "" THEN (df # None /\ df # r.df) ELSE reloaded
  /\ UNCHANGED <<llm, chat_history>>

\* A direct call of load_dataset.
LoadDataset(file) ==
  \E r \in {load_dataset(df, data_summary, file)} :
    /\ df' = r.df
    /\ data_summary' = r.data_summary
    /\ raw_csv' = IF file.readable THEN file.frame ELSE None
    /\ caller_df' = None
    /\ last' = Op("load_dataset", "", r.err, EmptyDict)
    /\ Loaded(r)
    /\ UNCHANGED data_loaded

\* The "Load Sample Data" button: load_dataset on the sample file if it
\* exists, then data_loaded = True; an exception is shown and swallowed.
LoadSample(file) ==
  /\ file.readable
  /\ \E r \in {load_dataset(df, data_summary, file)} :
       /\ df' = r.df
       /\ data_summary' = r.data_summary
       /\ data_loaded' = IF r.err = "" THEN TRUE ELSE data_loaded
       /\ last' = Op("load_sample", "", r.err, EmptyDict)
       /\ Loaded(r)
  /\ raw_csv' = file.frame
  /\ caller_df' = None

\* The button when data/sample_sales.csv does not exist: a warning only.
LoadSampleMissing ==
  /\ last' = Op("sample_missing", "", "", EmptyDict)
  /\ raw_csv' = None
  /\ caller_df' = None
  /\ held' = NoOp
  /\ repeat' = "no"
  /\ UNCHANGED <<df, data_summary, data_loaded, reloaded, llm, chat_history>>

\* The upload path of main(): df = pd.read_csv(uploaded_file); dp.df = df;
\* _clean_data(); _generate_summary(); data_loaded = True; then the path
\* reads its local df, which is the object dp.df refers to.
Upload(file) ==
  IF ~file.readable
    THEN /\ last' = Op("upload", "", "EmptyDataError", EmptyDict)
         /\ raw_csv' = None
         /\ caller_df' = None
         /\ held' = NoOp
         /\ repeat' = "no"
         /\ UNCHANGED <<df, data_summary, data_loaded, reloaded, llm, chat_history>>
    ELSE \E r \in {LoadInto(df, data_summary, file.frame)} :
           /\ df' = r.df
           /\ data_summary' = r.data_summary
           /\ data_loaded' = IF r.err = "" THEN TRUE ELSE data_loaded
           /\ raw_csv' = file.frame
           /\ caller_df' = r.df
           /\ last' = Op("upload", "", r.err, EmptyDict)
           /\ Loaded(r)

LoadOps == {"load_dataset", "load_sample", "upload"}

AggNames ==
  { "get_sales_trends", "analyze_menu_performance", "analyze_customer_segments",
    "analyze_store_performance", "get_correlation_analysis", "search_data" }

\* The value and exception of one aggregation call on the table t.
Aggregate(name, query, t) ==
  CASE name = "get_sales_trends" -> get_sales_trends(t)
    [] name = "analyze_menu_performance" -> analyze_menu_performance(t)
    [] name = "analyze_customer_segments" -> analyze_customer_segments(t)
    [] name = "analyze_store_performance" -> analyze_store_performance(t)
    [] name = "get_correlation_analysis" -> get_correlation_analysis(t)
    [] name = "search_data" -> search_data(t, query)

\* An aggregation that drops the last row of the table it reads.
DfAfterAggregateDropRow(name, t) ==
  IF t = None \/ t.nrows = 0 THEN t
  ELSE TakeRows(t, TupleOf([i \in 1..(t.nrows - 1) |-> i], t.nrows - 1))

\* What an aggregation call leaves in self.df: the functions only read it.
DfAfterAggregate(name, t) == t

\* A call of an aggregation function with the result r; the caller keeps the
\* first result of a run of aggregation calls.
Call(name, query, r) ==
  /\ last' = Op(name, query, r.err, r.val)
  /\ df' = DfAfterAggregate(name, df)
  /\ held' = IF held = NoOp THEN Op(name, query, r.err, r.val) ELSE held
  /\ repeat' = IF held = NoOp \/ held.op # name \/ held.arg # query THEN "no"
               ELSE IF last.op = name /\ last.arg = query THEN "direct"
               ELSE "after_others"
  /\ raw_csv' = None
  /\ caller_df' = None
  /\ UNCHANGED <<data_summary, data_loaded, reloaded, llm, chat_history>>

GetSalesTrends == Call("get_sales_trends", "", get_sales_trends(df))

AnalyzeMenuPerformance == Call("analyze_menu_performance", "", analyze_menu_performance(df))

AnalyzeCustomerSegments == Call("analyze_customer_segments", "", analyze_customer_segments(df))

AnalyzeStorePerformance == Call("analyze_store_performance", "", analyze_store_performance(df))

GetCorrelationAnalysis == Call("get_correlation_analysis", "", get_correlation_analysis(df))

SearchData == \E q \in Queries : Call("search_data", q, search_data(df, q))

\* A call of get_data_context_for_llm.
GetDataContext ==
  /\ \E r \in {get_data_context_for_llm(df, data_summary)} :
       last' = Op("get_data_context_for_llm", "", r.err, r.val)
  /\ repeat' = "no"
  /\ raw_csv' = None
  /\ caller_df' = None
  /\ UNCHANGED <<df, data_summary, data_loaded, held, reloaded, llm, chat_history>>

\* The dashboard draws a chart from dp.df, with the outcome r; it does so
\* only behind the data_loaded gate of main().
Plot(name, r) ==
  /\ data_loaded
  /\ df' = r.df
  /\ last' = Op(name, "", r.err, EmptyDict)
  /\ held' = NoOp
  /\ repeat' = "no"
  /\ raw_csv' = None
  /\ caller_df' = None
  /\ UNCHANGED <<data_summary, data_loaded, reloaded, llm, chat_history>>

PlotSalesTrend == Plot("plot_sales_trend", plot_sales_trend(df))

PlotMenuPerformance == Plot("plot_menu_performance", plot_menu_performance(df))

PlotStoreComparison == Plot("plot_store_comparison", plot_store_comparison(df))

PlotCustomerSegments == Plot("plot_customer_segments", plot_customer_segments(df))

PlotWeeklyPatterns == Plot("plot_weekly_patterns", plot_weekly_patterns(df))

PlotPriceQuantityCorrelation ==
  Plot("plot_price_quantity_correlation", plot_price_quantity_correlation(df))

CreateDashboardSummary == Plot("create_dashboard_summary", create_dashboard_summary(df))

(***************************************************************************)
(* QwenClient.  A call of chat_completion makes one requests.post and      *)
(* blocks until it returns a response or raises; the endpoint's answer is  *)
(* an input.                                                               *)
(***************************************************************************)
Choice(text) == [message |-> [content |-> text]]

\* The bodies of a response: not JSON, JSON without choices, with no choice,
\* with one or two choices, with a first choice that has no message.
Bodies ==
  { [json |-> FALSE, value |-> None],
    [json |-> TRUE, value |-> [error |-> "overloaded"]],
    [json |-> TRUE, value |-> [choices |-> <<>>]],
    [json |-> TRUE, value |-> [choices |-> <<Choice("Test response")>>]],
    [json |-> TRUE, value |-> [choices |-> <<Choice("Test response"), Choice("Second")>>]],
    [json |-> TRUE, value |-> [choices |-> <<[finish_reason |-> "length"]>>]] }

Statuses == {200, 201, 300, 500}

\* requests.post raises (no connection, timeout) or returns a response.
NoResponse == [sent |-> FALSE, status |-> 0, body |-> [json |-> FALSE, value |-> None]]

Responses ==
  {NoResponse} \cup {[sent |-> TRUE, status |-> st, body |-> b] : st \in Statuses, b \in Bodies}

\* Response.raise_for_status() raises for the 4xx and 5xx statuses.
raise_for_status(status) == status >= 400 /\ status < 600

\* result["choices"][0]["message"]["content"]
FirstContent(choices) ==
  IF "message" \in DOMAIN choices[1] /\ "content" \in DOMAIN choices[1].message
    THEN Ok(choices[1].message.content)
    ELSE Raise("KeyError")

\* What chat_completion returns or raises once requests.post is over.
chat_completion(response) ==
  IF ~response.sent THEN Raise("ConnectionError")
  ELSE IF raise_for_status(response.status) THEN Raise("HTTPError")
  ELSE IF ~response.body.json THEN Raise("JSONDecodeError")
  ELSE IF "choices" \in DOMAIN response.body.value /\ Len(response.body.value.choices) > 0
    THEN FirstContent(response.body.value.choices)
  ELSE Raise("Exception")

\* The methods of the client; each of the last four builds its messages and
\* returns self.chat_completion(messages).
ClientMethods ==
  { "chat_completion", "generate_insight", "answer_question", "generate_recommendations",
    "explain_analysis" }

Idle == ~llm.waiting

\* requests.post has been called once and has not returned.
Post(by, arg, aggregations, messages) ==
  [waiting |-> TRUE, posts |-> 1, by |-> by, arg |-> arg, aggregations |-> aggregations,
   messages |-> messages, response |-> None]

\* A client that posts again when the call failed, up to three times.
AfterResponseRetry(call, response, r) ==
  IF r.err # "" /\ call.posts < 3
    THEN [call EXCEPT !.posts = @ + 1, !.response = response]
    ELSE [call EXCEPT !.waiting = FALSE, !.response = response]

\* chat_completion returns or raises after the one response: no retry.
AfterResponse(call, response, r) == [call EXCEPT !.waiting = FALSE, !.response = response]

\* A call whose exception is dropped.
FinishedSilently(call, r) == Op(call.by, call.arg, "", r.val)

\* What the finished call leaves: the method's return value or exception;
\* for a handler, the text or the exception it shows.
Finished(call, r) == Op(call.by, call.arg, r.err, r.val)

\* The messages of a call: the system message and the user message.  A
\* text written in the calling code is named after the function that holds
\* it and has the values of its f-string.
Messages(system, user) == [system |-> system, user |-> user]

InlineSystem(method) == [source |-> method, key |-> ""]

InlinePrompt(name, values) == [template |-> name, filled |-> values]

\* A direct call of a client method.
ClientCall(method) ==
  /\ Idle
  /\ llm' = Post(method, "", <<>>, Messages(InlineSystem(method), InlinePrompt(method, <<>>)))
  /\ raw_csv' = None
  /\ caller_df' = None
  /\ UNCHANGED <<df, data_summary, data_loaded, last, held, repeat, reloaded, chat_history>>

\* A history that keeps the last answer only.
HistoryReplaced(history, call, r) ==
  IF call.by = "show_qa_interface" /\ r.err = "" THEN <<<<call.arg, r.val>>>> ELSE history

\* show_qa_interface after chat_completion has returned: the pair is
\* appended; an exception skips the append.
HistoryAfter(history, call, r) ==
  IF call.by = "show_qa_interface" /\ r.err = ""
    THEN Append(history, <<call.arg, r.val>>)
    ELSE history

\* requests.post is over: the call handles the response, and the handler
\* that made the call goes on.
Respond(response) ==
  /\ llm.waiting
  /\ \E r \in {chat_completion(response)} :
       /\ llm' = AfterResponse(llm, response, r)
       /\ last' = IF llm'.waiting THEN last ELSE Finished(llm, r)
       /\ chat_history' = IF llm'.waiting THEN chat_history
                          ELSE HistoryAfter(chat_history, llm, r)
  /\ repeat' = "no"
  /\ UNCHANGED <<df, data_summary, data_loaded, raw_csv, caller_df, held, reloaded>>

(***************************************************************************)
(* PromptTemplates.  A template is its key and the placeholders of its     *)
(* text in order of appearance; a formatted prompt is the template's key   *)
(* with the value put at each placeholder.  A system prompt is a fixed     *)
(* text, kept as its key.                                                  *)
(***************************************************************************)
SYSTEM_PROMPTS == {"data_analyst", "business_consultant", "qa_assistant"}

ANALYSIS_PROMPTS ==
  [sales_trend |-> <<"data_summary">>,
   menu_optimization |-> <<"menu_data">>,
   customer_segmentation |-> <<"segment_data">>,
   store_performance |-> <<"store_data">>]

QA_PROMPTS ==
  [general_question |-> <<"user_question", "data_context">>,
   comparison_question |-> <<"user_question", "comparison_data">>,
   trend_question |-> <<"user_question", "trend_data">>]

RECOMMENDATION_PROMPTS ==
  [revenue_optimization |-> <<"analysis_summary">>,
   operational_efficiency |-> <<"operational_data">>,
   marketing_strategy |-> <<"customer_sales_data">>]

Template(key, placeholders) == [key |-> key, placeholders |-> placeholders]

\* The empty string: no text and no placeholder.
EmptyTemplate == Template("", <<>>)

\* dict.get(key, default) on a dict of templates.
TemplateGet(templates, key, default) ==
  IF key \in DOMAIN templates THEN Template(key, templates[key]) ELSE default

Prompt(template, kwargs) ==
  [template |-> template.key,
   filled |-> [i \in DOMAIN template.placeholders |-> kwargs[template.placeholders[i]]]]

\* A format that leaves a placeholder without a value as it is.
str_format_lenient(template, kwargs) ==
  Ok([template |-> template.key,
      filled |-> [i \in DOMAIN template.placeholders |->
                    IF template.placeholders[i] \in DOMAIN kwargs
                      THEN kwargs[template.placeholders[i]]
                      ELSE [placeholder |-> template.placeholders[i]]]])

\* template.format(**kwargs): KeyError for a placeholder without a keyword
\* argument; keyword arguments the template does not name are ignored.
str_format(template, kwargs) ==
  IF \E i \in DOMAIN template.placeholders : template.placeholders[i] \notin DOMAIN kwargs
    THEN Raise("KeyError")
    ELSE Ok(Prompt(template, kwargs))

get_system_prompt(role) == IF role \in SYSTEM_PROMPTS THEN role ELSE "data_analyst"

format_analysis_prompt(analysis_type, kwargs) ==
  str_format(TemplateGet(ANALYSIS_PROMPTS, analysis_type, EmptyTemplate), kwargs)

format_qa_prompt(question_type, kwargs) ==
  str_format(TemplateGet(QA_PROMPTS, question_type,
                         Template("general_question", QA_PROMPTS["general_question"])),
             kwargs)

format_recommendation_prompt(rec_type, kwargs) ==
  str_format(TemplateGet(RECOMMENDATION_PROMPTS, rec_type, EmptyTemplate), kwargs)

\* The keys and keyword arguments the lookups are tried with: every key of
\* the class, one it does not have, and up to MaxKwargs keyword arguments,
\* each with a value that tells which argument it is.
MaxKwargs == 2

PromptKeys ==
  SYSTEM_PROMPTS \cup DOMAIN ANALYSIS_PROMPTS \cup DOMAIN QA_PROMPTS
    \cup DOMAIN RECOMMENDATION_PROMPTS \cup {"forecast"}

PromptFields ==
  { "data_summary", "menu_data", "segment_data", "store_data", "user_question",
    "data_context", "comparison_data", "trend_data", "analysis_summary",
    "operational_data", "customer_sales_data", "business_goal" }

KwargSets == {S \in SUBSET PromptFields : Cardinality(S) <= MaxKwargs}

Kwargs(S) == [f \in S |-> [value_of |-> f]]

PromptCall(name, key, kwargs, r) ==
  /\ last' = Op(name, [key |-> key, kwargs |-> kwargs], r.err, r.val)
  /\ UNCHANGED <<df, data_summary, data_loaded, raw_csv, caller_df, held, repeat, reloaded, llm, chat_history>>

GetSystemPrompt ==
  \E role \in PromptKeys :
    PromptCall("get_system_prompt", role, Kwargs({}), Ok([system |-> get_system_prompt(role)]))

FormatAnalysisPrompt ==
  \E key \in PromptKeys, S \in KwargSets :
    PromptCall("format_analysis_prompt", key, Kwargs(S), format_analysis_prompt(key, Kwargs(S)))

FormatQaPrompt ==
  \E key \in PromptKeys, S \in KwargSets :
    PromptCall("format_qa_prompt", key, Kwargs(S), format_qa_prompt(key, Kwargs(S)))

FormatRecommendationPrompt ==
  \E key \in PromptKeys, S \in KwargSets :
    PromptCall("format_recommendation_prompt", key, Kwargs(S),
               format_recommendation_prompt(key, Kwargs(S)))

(***************************************************************************)
(* The dashboard's handlers that call the client: show_ai_insights,        *)
(* show_qa_interface, show_recommendations.  Each runs inside one          *)
(* try/except: it builds the data context, calls aggregation functions,    *)
(* calls the client and shows the text, or shows the exception.            *)
(***************************************************************************)
InsightTypes ==
  { "General Business Insights", "Sales Trend Analysis", "Menu Optimization",
    "Customer Behavior", "Store Performance" }

\* The aggregation functions show_ai_insights calls for an insight type.
InsightAggregations(insight_type) ==
  CASE insight_type = "General Business Insights" -> <<>>
    [] insight_type = "Sales Trend Analysis" -> <<"get_sales_trends">>
    [] insight_type = "Menu Optimization" -> <<"analyze_menu_performance">>
    [] insight_type = "Customer Behavior" -> <<"analyze_customer_segments">>
    [] insight_type = "Store Performance" -> <<"analyze_store_performance">>

\* any(word in question.lower() for word in words)
Mentions(question, words) ==
  \E w \in words : \E off \in 0..(Len(Lower(Chars(question))) - Len(Chars(w))) :
    \A k \in DOMAIN Chars(w) : Chars(w)[k] = Lower(Chars(question))[off + k]

Questions == {"", "zzz", "Menu 01", "Store A", "menu store customer"}

\* The longest chat history a session of the model gets to.
MaxHistory == 2

\* The aggregation functions show_qa_interface calls for a question.
QuestionAggregations(question) ==
  (IF Mentions(question, {"menu", "makanan", "minuman"})
     THEN <<"analyze_menu_performance">> ELSE <<>>)
  \o (IF Mentions(question, {"store", "outlet", "cabang"})
        THEN <<"analyze_store_performance">> ELSE <<>>)
  \o (IF Mentions(question, {"segment", "customer", "pelanggan"})
        THEN <<"analyze_customer_segments">> ELSE <<>>)

RecTypes ==
  {"Revenue Optimization", "Operational Efficiency", "Marketing Strategy", "Menu Strategy"}

\* The aggregation functions show_recommendations calls for a type.
RecommendationAggregations(rec_type) ==
  CASE rec_type = "Revenue Optimization" ->
         <<"analyze_menu_performance", "analyze_store_performance">>
    [] rec_type = "Operational Efficiency" ->
         <<"analyze_store_performance", "get_sales_trends">>
    [] rec_type = "Marketing Strategy" ->
         <<"analyze_customer_segments", "analyze_menu_performance">>
    [] rec_type = "Menu Strategy" ->
         <<"analyze_menu_performance", "analyze_customer_segments">>

\* str(value), kept as the value it is the text of.
StrOf(value) == [str |-> value]

SystemPrompt(role) == [source |-> "PromptTemplates", key |-> get_system_prompt(role)]

\* The messages show_ai_insights sends; the keyword arguments it passes are
\* the ones the template names.
InsightMessages(insight_type, ctx, t) ==
  CASE insight_type = "General Business Insights" ->
         Messages(InlineSystem("generate_insight"), InlinePrompt("generate_insight", <<ctx>>))
    [] insight_type = "Sales Trend Analysis" ->
         Messages(SystemPrompt("data_analyst"),
                  format_analysis_prompt("sales_trend", [data_summary |-> ctx]).val)
    [] insight_type = "Menu Optimization" ->
         Messages(SystemPrompt("business_consultant"),
                  format_analysis_prompt("menu_optimization",
                    [menu_data |-> StrOf(analyze_menu_performance(t).val)]).val)
    [] insight_type = "Customer Behavior" ->
         Messages(SystemPrompt("data_analyst"),
                  format_analysis_prompt("customer_segmentation",
                    [segment_data |-> StrOf(analyze_customer_segments(t).val)]).val)
    [] insight_type = "Store Performance" ->
         Messages(SystemPrompt("business_consultant"),
                  format_analysis_prompt("store_performance",
                    [store_data |-> StrOf(analyze_store_performance(t).val)]).val)

QaLabel(name) ==
  CASE name = "analyze_menu_performance" -> "MENU PERFORMANCE DATA"
    [] name = "analyze_store_performance" -> "STORE PERFORMANCE DATA"
    [] name = "analyze_customer_segments" -> "CUSTOMER SEGMENT DATA"

\* data_context after the += of lines 398-408: the summary text and one
\* block for each function called.
QaContext(ctx, called, t) ==
  ctx \o Tuple([i \in DOMAIN called |->
                  Field(QaLabel(called[i]), StrOf(Aggregate(called[i], "", t).val))])

QuestionMessages(question, ctx, called, t) ==
  Messages(SystemPrompt("qa_assistant"),
           format_qa_prompt("general_question",
             [user_question |-> question, data_context |-> QaContext(ctx, called, t)]).val)

\* The messages show_recommendations sends; the text area for the business
\* goals is left empty.
RecommendationPrompt(rec_type, ctx, t) ==
  CASE rec_type = "Revenue Optimization" ->
         format_recommendation_prompt("revenue_optimization",
           [analysis_summary |->
              ctx \o << Field("MENU ANALYSIS", StrOf(analyze_menu_performance(t).val)),
                        Field("STORE ANALYSIS", StrOf(analyze_store_performance(t).val)) >>]).val
    [] rec_type = "Operational Efficiency" ->
         format_recommendation_prompt("operational_efficiency",
           [operational_data |->
              ctx \o << Field("STORE PERFORMANCE", StrOf(analyze_store_performance(t).val)),
                        Field("TRENDS", StrOf(get_sales_trends(t).val)) >>]).val
    [] rec_type = "Marketing Strategy" ->
         format_recommendation_prompt("marketing_strategy",
           [customer_sales_data |->
              ctx \o << Field("CUSTOMER SEGMENTS", StrOf(analyze_customer_segments(t).val)),
                        Field("MENU PERFORMANCE", StrOf(analyze_menu_performance(t).val)) >>]).val
    [] rec_type = "Menu Strategy" ->
         InlinePrompt("show_recommendations",
                      << StrOf(analyze_menu_performance(t).val),
                         StrOf(analyze_customer_segments(t).val), "" >>)

RecommendationMessages(rec_type, ctx, t) ==
  Messages(SystemPrompt("business_consultant"), RecommendationPrompt(rec_type, ctx, t))

HandlerMessages(by, arg, ctx, called, t) ==
  CASE by = "show_ai_insights" -> InsightMessages(arg, ctx, t)
    [] by = "show_qa_interface" -> QuestionMessages(arg, ctx, called, t)
    [] by = "show_recommendations" -> RecommendationMessages(arg, ctx, t)

\* The functions of names[i..] that get called on t: the calls stop at the
\* first that raises.
RECURSIVE Called(_, _, _)
Called(names, t, i) ==
  IF i > Len(names) THEN <<>>
  ELSE IF Aggregate(names[i], "", t).err # "" THEN <<names[i]>>
  ELSE <<names[i]>> \o Called(names, t, i + 1)

\* The exception of the last function called, "" if it returned.
LastError(called, t) ==
  IF Len(called) = 0 THEN "" ELSE Aggregate(called[Len(called)], "", t).err

RECURSIVE DfAfterAggregates(_, _)
DfAfterAggregates(called, t) ==
  IF Len(called) = 0 THEN t
  ELSE DfAfterAggregates(Tail(called), DfAfterAggregate(Head(called), t))

\* The handler has ended before it called the client.
Ended(by, arg, called) ==
  [waiting |-> FALSE, posts |-> 0, by |-> by, arg |-> arg, aggregations |-> called,
   messages |-> NoMessages, response |-> None]

\* The handler up to its call of the client: the context ctx, then the
\* aggregation calls `called`, of which the last raised e ("" if none did).
HandlerWith(by, arg, names, ctx, called, e) ==
  /\ data_loaded
  /\ Idle
  /\ IF ctx.err # ""
       THEN llm' = Ended(by, arg, <<>>) /\ last' = Op(by, arg, ctx.err, EmptyDict)
                                       /\ df' = df
     ELSE IF e # ""
       THEN llm' = Ended(by, arg, called) /\ last' = Op(by, arg, e, EmptyDict)
                                         /\ df' = DfAfterAggregates(called, df)
     ELSE /\ llm' = Post(by, arg, called, HandlerMessages(by, arg, ctx.val, called, df))
          /\ last' = last
          /\ df' = DfAfterAggregates(called, df)
  /\ repeat' = "no"
  /\ raw_csv' = None
  /\ caller_df' = None
  /\ UNCHANGED <<data_summary, data_loaded, held, reloaded, chat_history>>

HandlerCalling(by, arg, names, called) ==
  HandlerWith(by, arg, names, get_data_context_for_llm(df, data_summary), called,
              LastError(called, df))

Handler(by, arg, names) == HandlerCalling(by, arg, names, Called(names, df, 1))

\* The "Generate Insights" button.
GenerateInsights(insight_type) ==
  Handler("show_ai_insights", insight_type, InsightAggregations(insight_type))

\* The "Tanya AI" button with the text of the input field: with no text the
\* button does nothing.
AskQuestion(question) ==
  IF question = "" THEN data_loaded /\ Idle /\ UNCHANGED vars
  ELSE /\ Len(chat_history) < MaxHistory
       /\ Handler("show_qa_interface", question, QuestionAggregations(question))

\* The "Generate Recommendations" button.
GenerateRecommendations(rec_type) ==
  Handler("show_recommendations", rec_type, RecommendationAggregations(rec_type))

(***************************************************************************)
(* The export buttons of the recommendations tab.  A download is the file  *)
(* name with its time stamp and the JSON document; the document is kept    *)
(* as the value json.dumps encodes (default=str writes a value that JSON   *)
(* has no type for as its str()).  The clock is an input: each call of     *)
(* datetime.now() reads an instant.                                        *)
(***************************************************************************)
Instants == {1, 2}

JsonDocument(value) == [mime |-> "application/json", indent |-> 2, value |-> value]

Download(prefix, stamp, value) ==
  [file_name |-> [prefix |-> prefix, stamp |-> stamp], data |-> JsonDocument(value)]

\* The aggregation functions the report calls, in the order of the dict.
ReportNames ==
  << "get_sales_trends", "analyze_menu_performance", "analyze_customer_segments",
     "analyze_store_performance", "get_correlation_analysis" >>

\* A report that holds the summary and no analysis.
ReportSummaryOnly(t, summary, generated_at) ==
  [generated_at |-> generated_at,
   data_summary |-> summary,
   sales_trends |-> EmptyDict,
   menu_performance |-> EmptyDict,
   customer_segments |-> EmptyDict,
   store_performance |-> EmptyDict,
   correlation_analysis |-> EmptyDict]

\* The dict of lines 517-525.
Report(t, summary, generated_at) ==
  [generated_at |-> generated_at,
   data_summary |-> summary,
   sales_trends |-> get_sales_trends(t).val,
   menu_performance |-> analyze_menu_performance(t).val,
   customer_segments |-> analyze_customer_segments(t).val,
   store_performance |-> analyze_store_performance(t).val,
   correlation_analysis |-> get_correlation_analysis(t).val]

\* The "Export Data Summary" button.
ExportDataSummary ==
  /\ data_loaded
  /\ Idle
  /\ \E now \in Instants :
       last' = Op("export_data_summary", "", "", Download("data_summary", now, data_summary))
  /\ repeat' = "no"
  /\ raw_csv' = None
  /\ caller_df' = None
  /\ UNCHANGED <<df, data_summary, data_loaded, held, reloaded, llm, chat_history>>

\* The "Export Analysis Report" button: the calls are not inside a try, an
\* exception of an aggregation function ends the run without a download.
ExportReportWith(called, e) ==
  /\ data_loaded
  /\ Idle
  /\ \E generated_at, now \in Instants :
       /\ generated_at <= now
       /\ last' = IF e # "" THEN Op("export_analysis_report", "", e, EmptyDict)
                  ELSE Op("export_analysis_report", "", "",
                          Download("fnb_analysis_report", now,
                                   Report(df, data_summary, generated_at)))
  /\ df' = DfAfterAggregates(called, df)
  /\ repeat' = "no"
  /\ raw_csv' = None
  /\ caller_df' = None
  /\ UNCHANGED <<data_summary, data_loaded, held, reloaded, llm, chat_history>>

ExportCalling(called) == ExportReportWith(called, LastError(called, df))

ExportAnalysisReport == ExportCalling(Called(ReportNames, df, 1))

\* A session of the dashboard: loads of the session's files in any order,
\* aggregation calls and charts.
Next ==
  \/ \E f \in SessionFiles : LoadDataset(f)
  \/ \E f \in SessionFiles : LoadSample(f)
  \/ LoadSampleMissing
  \/ \E f \in SessionFiles : Upload(f)
  \/ GetSalesTrends
  \/ AnalyzeMenuPerformance
  \/ AnalyzeCustomerSegments
  \/ AnalyzeStorePerformance
  \/ GetCorrelationAnalysis
  \/ SearchData
  \/ PlotSalesTrend
  \/ PlotMenuPerformance
  \/ PlotStoreComparison
  \/ PlotCustomerSegments
  \/ PlotWeeklyPatterns
  \/ PlotPriceQuantityCorrelation
  \/ CreateDashboardSummary

Spec == Init /\ [][Next]_vars

\* One table: a fresh processor loads any table of AllTables, and one of the
\* grouped analyses is called on it.
LoadTable == df = None /\ last = NoOp /\ \E f \in AllTables : LoadDataset(f)

\* No aggregation function has been called on the table yet.
Fresh == held = NoOp

NextTable ==
  \/ LoadTable
  \/ Fresh /\ GetSalesTrends
  \/ Fresh /\ AnalyzeMenuPerformance
  \/ Fresh /\ AnalyzeCustomerSegments
  \/ Fresh /\ AnalyzeStorePerformance

SpecTable == Init /\ [][NextTable]_vars

\* One menu of ItemTables and the menu analysis of it.
LoadItems == df = None /\ last = NoOp /\ \E f \in ItemTables : LoadDataset(f)

NextItems ==
  \/ LoadItems
  \/ Fresh /\ AnalyzeMenuPerformance

SpecItems == Init /\ [][NextItems]_vars

\* The query texts of a search: none, a word in capitals, a word no cell
\* holds, and two with punctuation.
SearchQueries == {"", "TEH", "zzz", "e.", "("}

SearchTable == \E q \in SearchQueries : Call("search_data", q, search_data(df, q))

\* One table and one search on it.
NextSearch ==
  \/ LoadTable
  \/ Fresh /\ SearchTable

SpecSearch == Init /\ [][NextSearch]_vars

\* The language-model client alone: calls of its methods and the answers
\* of the endpoint.
NextClient ==
  \/ \E m \in ClientMethods : ClientCall(m)
  \/ \E response \in Responses : Respond(response)

SpecClient == Init /\ [][NextClient]_vars

\* The answers the dashboard's handlers are tried with: no connection, a
\* completion, a server error, a body without a completion.
HandlerResponses ==
  { NoResponse,
    [sent |-> TRUE, status |-> 200,
     body |-> [json |-> TRUE, value |-> [choices |-> <<Choice("Test response")>>]]],
    [sent |-> TRUE, status |-> 500, body |-> [json |-> FALSE, value |-> None]],
    [sent |-> TRUE, status |-> 200, body |-> [json |-> TRUE, value |-> [choices |-> <<>>]]] }

\* A session of the dashboard that has loaded its data: the handlers that
\* call the language model, and aggregation calls before and after them.
\* The session is followed up to its first answered question; NextChat
\* follows the questions after it.
NoAnswerYet == chat_history = <<>>

NextLlm ==
  \/ llm = NoCall /\ LoadSample(ScenarioFile)
  \/ llm = NoCall /\ Upload(BadDateFile)
  \/ NoAnswerYet /\ Idle /\ AnalyzeMenuPerformance
  \/ NoAnswerYet /\ \E insight_type \in InsightTypes : GenerateInsights(insight_type)
  \/ NoAnswerYet /\ \E question \in Questions : AskQuestion(question)
  \/ NoAnswerYet /\ \E rec_type \in RecTypes : GenerateRecommendations(rec_type)
  \/ \E response \in HandlerResponses : Respond(response)

SpecLlm == Init /\ [][NextLlm]_vars

\* One ledger of LedgerTables, the context text and the store analysis of
\* it.
LoadLedger == df = None /\ last.op = NoOp.op /\ \E f \in LedgerTables : LoadDataset(f)

NextLedger ==
  \/ LoadLedger
  \/ Fresh /\ GetDataContext
  \/ Fresh /\ AnalyzeStorePerformance

SpecLedger == Init /\ [][NextLedger]_vars

\* A session that loads its data, by upload or the sample button, and
\* exports.
NextExport ==
  \/ \E f \in SessionFiles : Upload(f)
  \/ LoadSample(ScenarioFile)
  \/ ExportDataSummary
  \/ ExportAnalysisReport

SpecExport == Init /\ [][NextExport]_vars

\* One call of one of the four lookups of PromptTemplates; the class keeps
\* no state between calls.
NoCallYet == last.op = NoOp.op

NextPrompts ==
  \/ NoCallYet /\ GetSystemPrompt
  \/ NoCallYet /\ FormatAnalysisPrompt
  \/ NoCallYet /\ FormatQaPrompt
  \/ NoCallYet /\ FormatRecommendationPrompt

SpecPrompts == Init /\ [][NextPrompts]_vars

\* The questions tab: questions and the endpoint's answers, with loads of
\* other files in between.
ChatQuestions == {"", "zzz", "Store A"}

NextChat ==
  \/ Idle /\ LoadSample(ScenarioFile)
  \/ Idle /\ \E f \in {ZeroQtyFile, BadDateFile} : Upload(f)
  \/ \E question \in ChatQuestions : AskQuestion(question)
  \/ \E response \in HandlerResponses : Respond(response)

SpecChat == Init /\ [][NextChat]_vars

\* A processor that loads the session's files, by load_dataset or by the
\* upload path, and is asked for its context text.
NextContext ==
  \/ \E f \in SessionFiles : LoadDataset(f)
  \/ \E f \in SessionFiles : Upload(f)
  \/ GetDataContext

SpecContext == Init /\ [][NextContext]_vars

(***************************************************************************)
(* Properties.                                                             *)
(***************************************************************************)
DerivedColumns == {"is_outlier", "avg_price", "month", "day_of_week", "week"}

\* The table has every column _clean_data leaves and a parsed date column.
IsNormalized(t) ==
  /\ HasCols(t, Range(RequiredColumns) \cup DerivedColumns)
  /\ IsDatetimeColumn(t, "date")

\* The table t has the rows of the file's table raw, in the same order: the
\* same cells in every column of the file, the dates parsed.
SameRows(t, raw) ==
  /\ t.nrows = raw.nrows
  /\ \A c \in Range(raw.columns) \ {"date"} : HasCol(t, c) /\ t.col[c] = raw.col[c]
  /\ HasCol(raw, "date") /\ HasCol(t, "date")
  /\ \A i \in RowIdx(raw) : t.col["date"][i] = to_datetime(raw.col["date"][i].text)

\* C1: after a failed load (load_dataset, the sample button or the upload
\* path) the processor holds no raw or half-derived table: it holds no table
\* or a fully normalized one.
C1_NoPartialTable ==
  (last.op \in LoadOps /\ last.err # "") => (df = None \/ IsNormalized(df))

\* C2: in every reachable state data_summary is empty or exactly the summary
\* _generate_summary computes from the table df holds now.
C2_SummaryOfCurrentTable ==
  \/ data_summary = EmptyDict
  \/ df # None /\ _generate_summary(df) = [err |-> "", summary |-> data_summary]

\* C3: after a successful load df has exactly the rows of the table just
\* read, and the result of every aggregation call is the one computed from
\* the table df holds, not one kept from an earlier table.
C3_ReloadReplaces ==
  /\ (last.op \in LoadOps /\ last.err = "") => SameRows(df, raw_csv)
  /\ (last.op \in AggNames) =>
        /\ last.err = Aggregate(last.op, last.arg, df).err
        /\ last.val = Aggregate(last.op, last.arg, df).val

\* An aggregation has returned a result after a successful load replaced a
\* different table.
C3_Witness ==
  /\ reloaded
  /\ df # None
  /\ IsNormalized(df)
  /\ last.op \in AggNames
  /\ last.err = ""
  /\ last.val # EmptyDict

\* C4: no operation other than a load changes the table the processor
\* holds: not an aggregation call, not a chart function.
C4_ImmutableBetweenLoads == [][last'.op \notin LoadOps => df' = df]_vars

\* C5: an aggregation call changes neither df nor data_summary, and a call
\* that repeats an earlier call of the same function with the same argument,
\* directly or with other aggregation calls in between, returns the result
\* the earlier call returned.
C5_Idempotent ==
  [][last'.op \in AggNames =>
       /\ df' = df
       /\ data_summary' = data_summary
       /\ repeat' # "no" => (last'.err = held.err /\ last'.val = held.val)]_vars

\* A call on a loaded table has repeated the held call after calls of other
\* aggregation functions.
C5_Witness ==
  /\ repeat = "after_others"
  /\ df # None
  /\ IsNormalized(df)
  /\ last.err = ""
  /\ last.val = held.val
  /\ last.val # EmptyDict

\* C6: an aggregation call on an absent table or on a table without rows
\* raises nothing, and on an absent table it returns the empty structure.
C6_EmptyTableNeverRaises ==
  (last.op \in AggNames /\ (df = None \/ df.nrows = 0)) =>
     /\ last.err = ""
     /\ df = None => last.val = (IF last.op = "search_data" THEN EmptyFrame ELSE EmptyDict)

ZeroQtyRows(t) == {i \in RowIdx(t) : t.col["qty"][i] = 0}

\* The mean of avg_price over the rows of the group `key` of column c that
\* have a quantity, rounded as the tables round it.
PriceMeanOfSold(t, c, key) ==
  Round2(SeriesMean(Pick(t.col["avg_price"],
                         SelectIdx(t.nrows,
                                   [i \in RowIdx(t) |-> t.col[c][i] = key /\ t.col["qty"][i] # 0],
                                   1))))

\* C7: a table with a qty = 0 row loads without an exception, the row's
\* avg_price is the not-computable mark, and the avg_price means per menu
\* item and per customer segment are the means over the other rows.
C7_ZeroQtyExcluded ==
  (df # None /\ HasCol(df, "qty") /\ ZeroQtyRows(df) # {}) =>
     /\ last.op = "load_dataset" =>
          /\ last.err = ""
          /\ \A i \in ZeroQtyRows(df) : IsNaN(df.col["avg_price"][i])
     /\ (last.op = "analyze_menu_performance" /\ last.err = "") =>
          \A k \in DOMAIN last.val.menu_performance :
            last.val.menu_performance[k].avg_price
              = PriceMeanOfSold(df, "menu_item", last.val.menu_performance[k].menu_item)
     /\ (last.op = "analyze_customer_segments" /\ last.err = "") =>
          \A k \in DOMAIN last.val.segment_performance :
            last.val.segment_performance[k].avg_price_per_item
              = PriceMeanOfSold(df, "customer_segment",
                                last.val.segment_performance[k].customer_segment)

\* C8: after a successful upload the caller's raw table is as pd.read_csv
\* returned it: its original columns, its dates still text.
C8_RawInputUntouched ==
  (last.op = "upload" /\ last.err = "" /\ caller_df # None) => caller_df = raw_csv

\* The revenue v lies outside [Q1 - 1.5*IQR, Q3 + 1.5*IQR] of the column.
OutsideIqr(v, column) ==
  LET Q1 == Quantile(column, 1, 4)
      Q3 == Quantile(column, 3, 4)
      reach == RMul(Rat(3, 2), RSub(Q3, Q1))
  IN  RLt(v, RSub(Q1, reach)) \/ RGt(v, RAdd(Q3, reach))

RECURSIVE SumInts(_)
SumInts(s) == IF Len(s) = 0 THEN 0 ELSE s[1] + SumInts(Tail(s))

\* C9: a successful load keeps every row of the file's table, flags a row
\* exactly when its revenue is outside the IQR fences of the whole revenue
\* column, and counts the flagged rows in the summary and in the grouped
\* analyses.
C9_OutliersKept ==
  /\ (last.op = "load_dataset" /\ last.err = "") =>
        /\ SameRows(df, raw_csv)
        /\ \A i \in RowIdx(raw_csv) :
             df.col["is_outlier"][i]
               = OutsideIqr(raw_csv.col["revenue"][i], raw_csv.col["revenue"])
        /\ data_summary.total_records = raw_csv.nrows
        /\ data_summary.total_revenue = RSumSeq(raw_csv.col["revenue"])
        /\ data_summary.total_qty_sold = Num(SumInts(raw_csv.col["qty"]))
  /\ (last.op = "analyze_menu_performance" /\ last.err = "" /\ df # None) =>
        SumInts(Frequencies(last.val.menu_performance)) = df.nrows
  /\ (last.op = "analyze_customer_segments" /\ last.err = "" /\ df # None) =>
        SumInts([k \in DOMAIN last.val.segment_performance |->
                   last.val.segment_performance[k].transaction_count]) = df.nrows
  /\ (last.op = "analyze_store_performance" /\ last.err = "" /\ df # None) =>
        SumInts([k \in DOMAIN last.val.store_performance |->
                   last.val.store_performance[k].transaction_count]) = df.nrows

\* An analysis has run on a loaded table that has a flagged row.
C9_Witness ==
  /\ last.op = "analyze_menu_performance"
  /\ last.err = ""
  /\ df # None
  /\ \E i \in RowIdx(df) : df.col["is_outlier"][i]

\* The sum of total_revenue over the per-item rows minus the sum of revenue
\* over the rows of the table.
ItemTotalGap(menu, t) ==
  RSub(RSumSeq(TotalRevenues(menu)), SeriesSum(t.col["revenue"]))

\* C10 as stated: for a non-empty table the sum of total_revenue over the
\* per-item rows of analyze_menu_performance equals the sum of revenue over
\* the rows of the table.
C10_ItemTotalsEqual ==
  (last.op = "analyze_menu_performance" /\ last.err = "" /\ df # None /\ df.nrows > 0) =>
     ItemTotalGap(last.val.menu_performance, df) = Num(0)

\* C10 amended: every row is counted in exactly one item, and the sum of
\* the per-item total_revenue, each rounded to 2 decimals, differs from the
\* sum of revenue by at most 0.005 per item; it is equal when every revenue
\* is a whole number of cents.
C10_ItemTotalsWithinRounding ==
  (last.op = "analyze_menu_performance" /\ last.err = "" /\ df # None /\ df.nrows > 0) =>
     /\ SumInts(Frequencies(last.val.menu_performance)) = df.nrows
     /\ Len(last.val.menu_performance) = Cardinality(Range(df.col["menu_item"]))
     /\ ~RGt(ItemTotalGap(last.val.menu_performance, df),
             Rat(Len(last.val.menu_performance), 200))
     /\ ~RLt(ItemTotalGap(last.val.menu_performance, df),
             Rat(-Len(last.val.menu_performance), 200))
     /\ (\A i \in RowIdx(df) : Round2(df.col["revenue"][i]) = df.col["revenue"][i])
          => ItemTotalGap(last.val.menu_performance, df) = Num(0)

\* The analysis has run on a table with several rows in one item and an
\* amount that is not a whole number of cents.
C10_Witness ==
  /\ last.op = "analyze_menu_performance"
  /\ last.err = ""
  /\ df # None
  /\ df.nrows > Len(last.val.menu_performance)
  /\ ItemTotalGap(last.val.menu_performance, df) # Num(0)

\* The revenue_share values of the segment rows.
RevenueShares(segments) == [k \in DOMAIN segments |-> segments[k].revenue_share]

\* The distance of the sum of the revenue_share values from 100.
ShareGap(segments) ==
  LET gap == RSub(SeriesSum(RevenueShares(segments)), Num(100))
  IN  IF RLt(gap, Num(0)) THEN RNeg(gap) ELSE gap

\* What rounding can move the sum of n shares by: 0.005 for each share, and
\* for each segment total, rounded to 2 decimals before the division, 0.005
\* of the total revenue in percent.
ShareTolerance(n, total) ==
  IF RGt(total, Num(0))
    THEN RMul(Num(n), RAdd(Rat(1, 200), RDiv(Rat(1, 2), total)))
    ELSE RMul(Num(n), Rat(1, 200))

\* Every share is a number and their sum is 100 within the tolerance.
ShareWithinTolerance(segments, total) ==
  /\ \A k \in DOMAIN segments : IsFinite(segments[k].revenue_share)
  /\ ~RGt(ShareGap(segments), ShareTolerance(Len(segments), total))

\* C11 as stated: for every table with rows the revenue_share values of
\* analyze_customer_segments sum to 100 within the rounding of the shares
\* (0.005 per segment) and of the segment totals they are computed from.
C11_SharesSumTo100 ==
  (last.op = "analyze_customer_segments" /\ last.err = "" /\ df # None /\ df.nrows > 0) =>
     ShareWithinTolerance(last.val.segment_performance, SeriesSum(df.col["revenue"]))

\* C11 amended: the same for every table whose total revenue is positive.
C11_SharesSumTo100WhenRevenue ==
  (/\ last.op = "analyze_customer_segments" /\ last.err = "" /\ df # None
   /\ RGt(SeriesSum(df.col["revenue"]), Num(0))) =>
     ShareWithinTolerance(last.val.segment_performance, SeriesSum(df.col["revenue"]))

\* The analysis has run on a table with revenue in several segments, one of
\* them with a share that had to be rounded.
C11_Witness ==
  /\ last.op = "analyze_customer_segments"
  /\ last.err = ""
  /\ df # None
  /\ Len(last.val.segment_performance) > 1
  /\ RGt(SeriesSum(df.col["revenue"]), Num(0))
  /\ SeriesSum(RevenueShares(last.val.segment_performance)) # Num(100)

\* q is a substring of text, character by character.
IsSubstring(q, text) ==
  \E off \in 0..(Len(text) - Len(q)) : \A k \in DOMAIN q : q[k] = text[off + k]

\* The rows of t in which the lower-cased query is a substring of the
\* lower-cased menu_item, store or customer_segment.
LiteralMatches(t, query) ==
  [i \in RowIdx(t) |->
     \E c \in SearchColumns : IsSubstring(Lower(Chars(query)), Lower(Chars(t.col[c][i])))]

\* C12: for every table and every query text search_data returns exactly
\* the rows in which the lower-cased query is a literal substring of the
\* lower-cased menu_item, store or customer_segment.
C12_SearchIsLiteralSubstring ==
  (last.op = "search_data" /\ df # None) =>
     /\ last.err = ""
     /\ last.val = TakeRows(df, SelectIdx(df.nrows, LiteralMatches(df, last.arg), 1))

\* C13: the empty query returns every row of the table, and a query that
\* occurs in no menu_item, store or customer_segment returns no row.
C13_SearchBoundaries ==
  (last.op = "search_data" /\ df # None) =>
     /\ last.arg = "" => (last.err = "" /\ last.val = df)
     /\ (\A i \in RowIdx(df) : ~LiteralMatches(df, last.arg)[i]) =>
           (last.err = "" /\ last.val.nrows = 0)

\* The calendar date a is before the calendar date b.
DateBefore(a, b) ==
  \/ a.y < b.y
  \/ a.y = b.y /\ a.m < b.m
  \/ a.y = b.y /\ a.m = b.m /\ a.d < b.d

\* The sum of revenue over the rows i.. of t dated `date`.
RECURSIVE RevenueOn(_, _, _)
RevenueOn(t, date, i) ==
  IF i > t.nrows THEN Num(0)
  ELSE RAdd(IF t.col["date"][i] = date THEN t.col["revenue"][i] ELSE Num(0),
            RevenueOn(t, date, i + 1))

\* The sum of qty over the rows i.. of t dated `date`.
RECURSIVE QtyOn(_, _, _)
QtyOn(t, date, i) ==
  IF i > t.nrows THEN 0
  ELSE (IF t.col["date"][i] = date THEN t.col["qty"][i] ELSE 0) + QtyOn(t, date, i + 1)

\* The daily_trends of the three-row scenario.
ScenarioDaily ==
  << [key |-> [y |-> 2024, m |-> 1, d |-> 15], revenue |-> Num(163000), qty |-> Num(9)],
     [key |-> [y |-> 2024, m |-> 1, d |-> 16], revenue |-> Num(15000), qty |-> Num(10)] >>

\* C14: on a loaded table get_sales_trends returns the three collections;
\* daily_trends has one entry per distinct date, in ascending date order,
\* with the sums of revenue and qty over the rows of that date; the
\* three-row scenario gives 2024-01-15: 163000, 9 and 2024-01-16: 15000, 10.
C14_DailyTrends ==
  (last.op = "get_sales_trends" /\ df # None) =>
     /\ last.err = ""
     /\ DOMAIN last.val = {"daily_trends", "monthly_trends", "weekly_patterns"}
     /\ LET daily == last.val.daily_trends
        IN  /\ {daily[k].key : k \in DOMAIN daily} = Range(df.col["date"])
            /\ \A j, k \in DOMAIN daily : j < k => DateBefore(daily[j].key, daily[k].key)
            /\ \A k \in DOMAIN daily :
                 /\ daily[k].revenue = RevenueOn(df, daily[k].key, 1)
                 /\ daily[k].qty = Num(QtyOn(df, daily[k].key, 1))
            /\ SameRows(df, ScenarioFile.frame) => daily = ScenarioDaily

\* get_sales_trends has run on the three-row scenario: several dates, one of
\* them on more than one row.
C14_Witness ==
  /\ last.op = "get_sales_trends"
  /\ last.err = ""
  /\ df # None
  /\ SameRows(df, ScenarioFile.frame)
  /\ Len(last.val.daily_trends) > 1
  /\ df.nrows > Len(last.val.daily_trends)

\* The entries of the list are rows of the per-item table, each item once.
ListsItemsOf(list, menu) ==
  /\ \A k \in DOMAIN list : \E i \in DOMAIN menu :
       /\ list[k].menu_item = menu[i].menu_item
       /\ list[k].total_revenue = menu[i].total_revenue
       /\ list[k].total_qty = menu[i].total_qty
  /\ \A j, k \in DOMAIN list : j # k => list[j].menu_item # list[k].menu_item

\* The items of the per-item table that the list leaves out.
LeftOut(list, menu) ==
  {i \in DOMAIN menu : \A k \in DOMAIN list : list[k].menu_item # menu[i].menu_item}

ScenarioTop ==
  << [menu_item |-> "Nasi Goreng", total_revenue |-> Num(85000), total_qty |-> Num(5)],
     [menu_item |-> "Ayam Bakar", total_revenue |-> Num(78000), total_qty |-> Num(4)],
     [menu_item |-> "Es Teh", total_revenue |-> Num(15000), total_qty |-> Num(10)] >>

\* C15: top_performers lists min(10, n) items, none with less total revenue
\* than an item left out, in descending order of total revenue;
\* low_performers lists min(5, n) items, none with more total revenue than
\* an item left out; n is the number of distinct menu items.  The three-row
\* scenario lists Nasi Goreng 85000, Ayam Bakar 78000, Es Teh 15000.
C15_TopAndLowPerformers ==
  (last.op = "analyze_menu_performance" /\ last.err = "" /\ df # None) =>
     LET menu == last.val.menu_performance
         top == last.val.top_performers
         low == last.val.low_performers
         n == Cardinality(Range(df.col["menu_item"]))
     IN  /\ Len(menu) = n
         /\ Len(top) = Min2(10, n)
         /\ ListsItemsOf(top, menu)
         /\ \A j, k \in DOMAIN top : j < k => ~RLt(top[j].total_revenue, top[k].total_revenue)
         /\ \A i \in LeftOut(top, menu) : \A k \in DOMAIN top :
              ~RGt(menu[i].total_revenue, top[k].total_revenue)
         /\ Len(low) = Min2(5, n)
         /\ ListsItemsOf(low, menu)
         /\ \A i \in LeftOut(low, menu) : \A k \in DOMAIN low :
              ~RLt(menu[i].total_revenue, low[k].total_revenue)
         /\ SameRows(df, ScenarioFile.frame) => top = ScenarioTop

\* The analysis has run on a menu with more than 10 items, so both lists
\* leave items out.
C15_Witness ==
  /\ last.op = "analyze_menu_performance"
  /\ last.err = ""
  /\ df # None
  /\ Len(last.val.menu_performance) > 10
  /\ Len(last.val.top_performers) = 10
  /\ Len(last.val.low_performers) = 5

Categories == {"High Performer", "Low Performer", "Average"}

\* The categories follow from two thresholds over the per-item totals: the
\* 80th and the 20th percentile of the totals of all items.
CategoriesByPercentile(menu, p80, p20) ==
  \A i \in DOMAIN menu :
    /\ menu[i].performance_category \in Categories
    /\ menu[i].performance_category = "High Performer" <=> RGt(menu[i].total_revenue, p80)
    /\ menu[i].performance_category = "Low Performer" <=>
         (RLt(menu[i].total_revenue, p20) /\ ~RGt(menu[i].total_revenue, p80))

\* One pair of thresholds serves every item: an item with at least the total
\* of a high performer is a high performer, one with at most the total of a
\* low performer is a low performer, and the two groups do not meet.
CategoriesOrdered(menu) ==
  \A i, j \in DOMAIN menu :
    ~RGt(menu[i].total_revenue, menu[j].total_revenue) =>
       /\ menu[i].performance_category = "High Performer"
            => menu[j].performance_category = "High Performer"
       /\ menu[j].performance_category = "Low Performer"
            => menu[i].performance_category = "Low Performer"

\* C16: every item has one category, High Performer when its total revenue
\* is strictly above the 80th percentile of the per-item totals, Low
\* Performer when strictly below the 20th, else Average, with the same
\* thresholds for every item; when all totals are equal (a single item
\* included) every item is Average.
C16_Categories ==
  (last.op = "analyze_menu_performance" /\ last.err = "" /\ df # None) =>
     LET menu == last.val.menu_performance
     IN  /\ CategoriesByPercentile(menu, Quantile(TotalRevenues(menu), 4, 5),
                                   Quantile(TotalRevenues(menu), 1, 5))
         /\ CategoriesOrdered(menu)
         /\ (\A i, j \in DOMAIN menu : menu[i].total_revenue = menu[j].total_revenue)
              => \A i \in DOMAIN menu : menu[i].performance_category = "Average"

\* The analysis has categorised a menu that has items of all three
\* categories.
C16_Witness ==
  /\ last.op = "analyze_menu_performance"
  /\ last.err = ""
  /\ df # None
  /\ \A c \in Categories : \E i \in DOMAIN last.val.menu_performance :
       last.val.menu_performance[i].performance_category = c

\* The body holds a non-empty choices list.
HasChoices(body) ==
  body.json /\ "choices" \in DOMAIN body.value /\ Len(body.value.choices) > 0

\* The first choice has a message with a content.
HasFirstContent(body) ==
  /\ "message" \in DOMAIN body.value.choices[1]
  /\ "content" \in DOMAIN body.value.choices[1].message

\* C17: chat_completion returns the content of the first choice's message
\* when the request succeeds with a 2xx status and the body holds a
\* non-empty choices list; it raises and returns no text when the request
\* fails, when the status is not 2xx, or when choices is missing or empty.
C17_ChatCompletionOutcome ==
  (Idle /\ llm.by = "chat_completion" /\ llm.response # None) =>
     LET response == llm.response
     IN  /\ (/\ response.sent
              /\ response.status \in 200..299
              /\ HasChoices(response.body)
              /\ HasFirstContent(response.body)) =>
                 /\ last.err = ""
                 /\ last.val = response.body.value.choices[1].message.content
         /\ (\/ ~response.sent
              \/ response.status \notin 200..299
              \/ (response.body.json /\ ~HasChoices(response.body))) =>
                 /\ last.err # ""
                 /\ last.val = EmptyDict

\* C19: a call of a client method makes one requests.post: the call starts
\* with one request, the response ends it without another request, and a
\* failed request is reported to the caller then.
C19_OneRequestPerCall ==
  [][/\ (~llm.waiting /\ llm'.waiting) => llm'.posts = 1
     /\ llm.waiting =>
          /\ ~llm'.waiting
          /\ llm'.posts = 1
          /\ last'.op = llm.by
          /\ last'.err = chat_completion(llm'.response).err]_vars

\* generate_insight has ended with the exception of its one request.
C19_Witness ==
  /\ ~llm.waiting
  /\ llm.by = "generate_insight"
  /\ llm.posts = 1
  /\ llm.response = NoResponse
  /\ last.op = "generate_insight"
  /\ last.err = "ConnectionError"

HandlerNames == {"show_ai_insights", "show_qa_interface", "show_recommendations"}

\* C18: a handler whose chat_completion call raises leaves df, data_summary
\* and data_loaded as they were and shows the error, and an aggregation
\* call made afterwards returns what it returned before.
C18_FailedCallLeavesAggregation ==
  [][/\ (llm' # llm /\ llm'.by \in HandlerNames) =>
          /\ df' = df
          /\ data_summary' = data_summary
          /\ data_loaded' = data_loaded
     /\ (llm.waiting /\ chat_completion(llm'.response).err # "") =>
          /\ ~llm'.waiting
          /\ last'.op = llm.by
          /\ last'.err = chat_completion(llm'.response).err
     /\ (last'.op \in AggNames /\ repeat' # "no") =>
          (last'.err = held.err /\ last'.val = held.val)]_vars

\* An aggregation call has returned, right after a handler's failed
\* language-model call, what it returned before that call.
C18_Witness ==
  /\ last.op = "analyze_menu_performance"
  /\ last.err = ""
  /\ last.val # EmptyDict
  /\ repeat = "after_others"
  /\ last.val = held.val
  /\ llm.by \in HandlerNames
  /\ ~llm.waiting
  /\ llm.response # None
  /\ chat_completion(llm.response).err # ""

\* C20: no interaction (here on a fully normalized table) runs more than
\* one aggregation function or makes more than one network call.
C20_OneAggregationOneCall ==
  (llm.by \in HandlerNames /\ df # None /\ IsNormalized(df)) =>
     (Len(llm.aggregations) <= 1 /\ llm.posts <= 1)

\* The labels of the context text, in the order of the f-string.
ContextFields ==
  << "Total Records", "Date Range", "Total Revenue", "Total Items Sold",
     "Average Transaction", "STORES", "CUSTOMER SEGMENTS", "UNIQUE MENU ITEMS",
     "TOP SELLING ITEMS", "REVENUE BY STORE", "REVENUE BY SEGMENT" >>

Labels(text) == [i \in DOMAIN text |-> text[i].label]

\* C21: the context text is a function of the stored data_summary alone:
\* whatever table the processor holds, the same summary gives the same text,
\* and the text lists record count, date span, total revenue, total quantity,
\* mean transaction value, stores, segments, item count, top items, revenue
\* by store and revenue by segment in that order.  For the sample file the
\* total revenue reads "Rp 178,000" and the store list "Store A, Store B".
C21_ContextFromSummary ==
  (last.op = "get_data_context_for_llm" /\ last.err = "" /\ df # None) =>
    /\ Labels(last.val) = ContextFields
    /\ \A f \in SessionFiles :
         f.readable => get_data_context_for_llm(f.frame, data_summary) = Ok(last.val)
    /\ data_summary.total_records = 3 =>
         /\ last.val[3].text = <<"R", "p", " ", "1", "7", "8", ",", "0", "0", "0">>
         /\ last.val[6].text = Chars("Store A") \o <<",", " ">> \o Chars("Store B")

\* The text was returned while the processor held a raw table of another
\* file than the one the summary was computed from.
C21_Witness ==
  /\ last.op = "get_data_context_for_llm"
  /\ last.err = ""
  /\ df # None
  /\ ~IsNormalized(df)
  /\ data_summary.total_records # df.nrows

\* The table with its rows i and j exchanged.
SwapRows(t, i, j) ==
  TakeRows(t, TupleOf([k \in 1..t.nrows |-> IF k = i THEN j ELSE IF k = j THEN i ELSE k],
                      t.nrows))

\* The context text of a fresh processor that has loaded the table.
ContextAfterLoad(r) == get_data_context_for_llm(r.df, r.data_summary)

ContextOfFrame(frame) == ContextAfterLoad(LoadInto(None, EmptyDict, frame))

\* C22: two tables that hold the same records in a different row order give
\* the same context text: after a successful load, the file with any two of
\* its rows exchanged gives the text the loaded table gives.
C22_RowOrderIndependent ==
  (last.op = "load_dataset" /\ last.err = "") =>
    \A i, j \in RowIdx(raw_csv) :
      ContextOfFrame(SwapRows(raw_csv, i, j)) = get_data_context_for_llm(df, data_summary)

\* The sum of the cells of vals on the first i rows whose cell in keys is
\* key.
RECURSIVE SumWhere(_, _, _, _)
SumWhere(vals, keys, key, i) ==
  IF i = 0 THEN Num(0)
  ELSE RAdd(SumWhere(vals, keys, key, i - 1), IF keys[i] = key THEN vals[i] ELSE Num(0))

\* The sum of all cells of vals.
ColumnTotal(vals) == SumWhere(vals, [i \in DOMAIN vals |-> "all"], "all", Len(vals))

RECURSIVE EntriesTotal(_, _)
EntriesTotal(entries, i) ==
  IF i = 0 THEN Num(0) ELSE RAdd(EntriesTotal(entries, i - 1), entries[i].value)

\* The list has each distinct cell of the column once.
ListsDistinct(list, column) ==
  /\ Range(list) = Range(column)
  /\ Len(list) = Cardinality(Range(column))

\* The entries are items of the table with their summed qty, largest first,
\* and no item left out has sold more than a listed one.
RankedByQty(entries, t) ==
  /\ \A i \in DOMAIN entries :
       /\ entries[i].key \in Range(t.col["menu_item"])
       /\ entries[i].value
            = SumWhere(IntsToNum(t.col["qty"]), t.col["menu_item"], entries[i].key, t.nrows)
  /\ \A i, j \in DOMAIN entries :
       i < j => entries[i].key # entries[j].key /\ ~RLt(entries[i].value, entries[j].value)
  /\ \A item \in Range(t.col["menu_item"]) \ {entries[i].key : i \in DOMAIN entries} :
       \A i \in DOMAIN entries :
         ~RLt(entries[i].value,
              SumWhere(IntsToNum(t.col["qty"]), t.col["menu_item"], item, t.nrows))

\* C23: after a successful load the summary agrees with the table:
\* total_records is the number of rows, total_revenue and total_qty_sold the
\* column sums, stores and customer_segments the distinct values once each,
\* unique_menu_items the number of distinct items, top_selling_items at most
\* 5 items (all of them when there are fewer) ranked by summed qty, and the
\* values of revenue_by_store and of revenue_by_segment each sum to
\* total_revenue.
C23_SummaryAgreesWithTable ==
  (last.op = "load_dataset" /\ last.err = "") =>
    /\ data_summary.total_records = df.nrows
    /\ data_summary.total_revenue = ColumnTotal(df.col["revenue"])
    /\ data_summary.total_qty_sold = ColumnTotal(IntsToNum(df.col["qty"]))
    /\ ListsDistinct(data_summary.stores, df.col["store"])
    /\ ListsDistinct(data_summary.customer_segments, df.col["customer_segment"])
    /\ data_summary.unique_menu_items = Cardinality(Range(df.col["menu_item"]))
    /\ Len(data_summary.top_selling_items)
         = Min2(TopSellingCount, Cardinality(Range(df.col["menu_item"])))
    /\ RankedByQty(data_summary.top_selling_items, df)
    /\ EntriesTotal(data_summary.revenue_by_store, Len(data_summary.revenue_by_store))
         = data_summary.total_revenue
    /\ EntriesTotal(data_summary.revenue_by_segment, Len(data_summary.revenue_by_segment))
         = data_summary.total_revenue

\* A loaded ledger with more than five items, two stores, three segments,
\* an item on several rows and an item left out of the top list.
C23_Witness ==
  /\ last.op = "load_dataset"
  /\ last.err = ""
  /\ data_summary.unique_menu_items > TopSellingCount
  /\ Len(data_summary.stores) = 2
  /\ Len(data_summary.customer_segments) = 3
  /\ df.nrows > data_summary.unique_menu_items
  /\ data_summary.top_selling_items[1].value # data_summary.top_selling_items[5].value

\* The rows of the table that belong to the store.
RowsOfStore(t, store) == TakeRows(t, GroupIdx(t.col["store"], store))

StoreRevenue(t, store) == SumWhere(t.col["revenue"], t.col["store"], store, t.nrows)

\* The result has one performance entry and one popular-items entry per
\* store of the table; a popular-items entry lists at most five items (all
\* the store's items when it has fewer), ranked by the quantity sold on the
\* store's own rows.
OneEntryPerStore(result, t) ==
  /\ ListsDistinct([i \in DOMAIN result.store_performance |-> result.store_performance[i].store],
                   t.col["store"])
  /\ ListsDistinct([i \in DOMAIN result.store_popular_items |->
                      result.store_popular_items[i].store],
                   t.col["store"])
  /\ \A i \in DOMAIN result.store_popular_items :
       /\ Len(result.store_popular_items[i].popular)
            = Min2(PopularItems,
                   Cardinality(Range(RowsOfStore(t, result.store_popular_items[i].store)
                                       .col["menu_item"])))
       /\ RankedByQty(result.store_popular_items[i].popular,
                      RowsOfStore(t, result.store_popular_items[i].store))

\* C24 as stated: revenue_per_day is the store's revenue sum divided by the
\* number of distinct dates of the whole table, and efficiency_score is the
\* store's revenue sum divided by its number of rows; one entry per store;
\* popular items per store ranked within the store.
C24_StorePerformanceExact ==
  (last.op = "analyze_store_performance" /\ last.err = "" /\ df # None) =>
    /\ OneEntryPerStore(last.val, df)
    /\ \A i \in DOMAIN last.val.store_performance :
         /\ last.val.store_performance[i].revenue_per_day
              = RDiv(StoreRevenue(df, last.val.store_performance[i].store),
                     Num(Cardinality(Range(df.col["date"]))))
         /\ last.val.store_performance[i].efficiency_score
              = RDiv(StoreRevenue(df, last.val.store_performance[i].store),
                     Num(RowsOfStore(df, last.val.store_performance[i].store).nrows))

\* C24, amended: the same with the rounding of the code: total_revenue is
\* the store's revenue sum rounded to 2 decimals, revenue_per_day is that
\* total divided by the number of distinct dates of the whole table, and
\* efficiency_score is that total divided by the store's number of rows,
\* rounded to 2 decimals.
C24_StorePerformanceRounded ==
  (last.op = "analyze_store_performance" /\ last.err = "" /\ df # None) =>
    /\ OneEntryPerStore(last.val, df)
    /\ \A i \in DOMAIN last.val.store_performance :
         /\ last.val.store_performance[i].total_revenue
              = Round2(StoreRevenue(df, last.val.store_performance[i].store))
         /\ last.val.store_performance[i].revenue_per_day
              = RDiv(last.val.store_performance[i].total_revenue,
                     Num(Cardinality(Range(df.col["date"]))))
         /\ last.val.store_performance[i].efficiency_score
              = Round2(RDiv(last.val.store_performance[i].total_revenue,
                            Num(RowsOfStore(df, last.val.store_performance[i].store).nrows)))

\* A store analysis of a ledger with two stores, one of which has sold on
\* fewer days than the table covers and the other more than five items, and
\* an efficiency score that is not the exact quotient.
C24_Witness ==
  /\ last.op = "analyze_store_performance"
  /\ last.err = ""
  /\ df # None
  /\ Len(last.val.store_performance) = 2
  /\ \E i \in DOMAIN last.val.store_performance :
       Cardinality(Range(RowsOfStore(df, last.val.store_performance[i].store).col["date"]))
         < Cardinality(Range(df.col["date"]))
  /\ \E i \in DOMAIN last.val.store_popular_items :
       Cardinality(Range(RowsOfStore(df, last.val.store_popular_items[i].store)
                           .col["menu_item"])) > PopularItems
  /\ \E i \in DOMAIN last.val.store_performance :
       last.val.store_performance[i].efficiency_score
         # RDiv(StoreRevenue(df, last.val.store_performance[i].store),
                Num(RowsOfStore(df, last.val.store_performance[i].store).nrows))

C26_LoadedMeansNormalized ==
  data_loaded =>
    /\ df # None
    /\ IsNormalized(df)
    /\ _generate_summary(df) = [err |-> "", summary |-> data_summary]

\* C27: get_data_context_for_llm never raises: it returns "No data loaded"
\* exactly when the processor holds no table, and otherwise the summary text
\* built from data_summary.
C27_ContextNeverRaises ==
  last.op = "get_data_context_for_llm" =>
    /\ last.err = ""
    /\ (last.val = NoDataLoaded) <=> (df = None)
    /\ df # None => last.val = ContextText(data_summary)

\* The keyword arguments give a value for every placeholder of the text.
GivesAll(placeholders, kwargs) ==
  \A i \in DOMAIN placeholders : placeholders[i] \in DOMAIN kwargs

\* The call returned the template's text with each placeholder replaced by
\* the value given for it.
ReturnedFilled(call, key, placeholders) ==
  /\ call.err = ""
  /\ call.val.template = key
  /\ DOMAIN call.val.filled = DOMAIN placeholders
  /\ \A i \in DOMAIN placeholders : call.val.filled[i] = call.arg.kwargs[placeholders[i]]

\* The call of a lookup whose key selects the given template: the text
\* filled in when every placeholder has a value, an exception otherwise.
FilledOrRaised(call, key, placeholders) ==
  IF GivesAll(placeholders, call.arg.kwargs)
    THEN ReturnedFilled(call, key, placeholders)
    ELSE call.err = "KeyError"

\* C29: get_system_prompt returns the role's prompt, and the data_analyst
\* prompt for an unknown role; format_qa_prompt with an unknown type formats
\* the general_question template; format_analysis_prompt and
\* format_recommendation_prompt with an unknown type return the empty
\* string; a known template without a value for one of its placeholders
\* raises instead of returning text with an unfilled placeholder.
C29_PromptLookups ==
  /\ last.op = "get_system_prompt" =>
       /\ last.err = ""
       /\ last.val.system
            = (IF last.arg.key \in {"data_analyst", "business_consultant", "qa_assistant"}
                 THEN last.arg.key ELSE "data_analyst")
  /\ last.op = "format_qa_prompt" =>
       IF last.arg.key \in DOMAIN QA_PROMPTS
         THEN FilledOrRaised(last, last.arg.key, QA_PROMPTS[last.arg.key])
         ELSE FilledOrRaised(last, "general_question", <<"user_question", "data_context">>)
  /\ last.op = "format_analysis_prompt" =>
       IF last.arg.key \in DOMAIN ANALYSIS_PROMPTS
         THEN FilledOrRaised(last, last.arg.key, ANALYSIS_PROMPTS[last.arg.key])
         ELSE ReturnedFilled(last, "", <<>>)
  /\ last.op = "format_recommendation_prompt" =>
       IF last.arg.key \in DOMAIN RECOMMENDATION_PROMPTS
         THEN FilledOrRaised(last, last.arg.key, RECOMMENDATION_PROMPTS[last.arg.key])
         ELSE ReturnedFilled(last, "", <<>>)

\* A question type the class does not have was formatted as a general
\* question with only one of its two values given, and raised.
C29_Witness ==
  /\ last.op = "format_qa_prompt"
  /\ last.arg.key = "forecast"
  /\ DOMAIN last.arg.kwargs = {"user_question"}
  /\ last.err = "KeyError"

\* C28: the chat history grows by the pair (question, answer), appended at
\* its end, in the step in which a question's call to the language model
\* returns an answer; every other step (a question whose call fails, an empty
\* question, a load, any other handler) leaves the history as it is.
C28_HistoryGrowsByAnswers ==
  [][IF /\ llm.waiting
        /\ llm.by = "show_qa_interface"
        /\ ~llm'.waiting
        /\ chat_completion(llm'.response).err = ""
       THEN /\ chat_history' =
                 Append(chat_history, <<llm.arg, chat_completion(llm'.response).val>>)
            /\ last'.op = "show_qa_interface"
            /\ last'.err = ""
       ELSE chat_history' = chat_history]_vars

\* Two answered questions, in the order asked, are still in the history
\* after an upload has replaced the table by another file's.
C28_Witness ==
  /\ Len(chat_history) = 2
  /\ chat_history[1][1] = "Store A"
  /\ chat_history[2][1] = "zzz"
  /\ last.op = "upload"
  /\ last.err = ""
  /\ reloaded
  /\ data_loaded

\* One of the words is a substring of the lower-cased question.
Asks(question, words) ==
  \E w \in words : IsSubstring(Chars(w), Lower(Chars(question)))

\* The blocks a question asks for, with the data of the table t.
BlocksAskedFor(question, t) ==
  (IF Asks(question, {"menu", "makanan", "minuman"})
     THEN << Field("MENU PERFORMANCE DATA", StrOf(analyze_menu_performance(t).val)) >>
     ELSE <<>>)
  \o (IF Asks(question, {"store", "outlet", "cabang"})
        THEN << Field("STORE PERFORMANCE DATA", StrOf(analyze_store_performance(t).val)) >>
        ELSE <<>>)
  \o (IF Asks(question, {"segment", "customer", "pelanggan"})
        THEN << Field("CUSTOMER SEGMENT DATA", StrOf(analyze_customer_segments(t).val)) >>
        ELSE <<>>)

\* C30: a question that has been asked has made one call to the language
\* model, with the qa_assistant system prompt and the general_question
\* template filled with the question and a context that is the summary text
\* followed by the menu, store and segment blocks, in this order, each there
\* once if and only if the lower-cased question holds one of its words.
C30_QuestionContext ==
  (llm.by = "show_qa_interface" /\ llm.response = None) =>
    /\ llm.waiting
    /\ llm.posts = 1
    /\ llm.messages.system = [source |-> "PromptTemplates", key |-> "qa_assistant"]
    /\ llm.messages.user.template = "general_question"
    /\ Len(llm.messages.user.filled) = 2
    /\ llm.messages.user.filled[1] = llm.arg
    /\ llm.messages.user.filled[2] = ContextText(data_summary) \o BlocksAskedFor(llm.arg, df)

====
